---- MODULE Spec2Model ----
(***************************************************************************)
(* Julabo FL1703 control: the threaded TCP gateway (JulaboTCPServer with   *)
(* its request handlers, serial watchdog and schedule ticker), the serial  *)
(* driver (JulaboChiller) and the per-IP rate limiter (_RateLimiter).      *)
(*                                                                         *)
(* Several specifications share the module:                                *)
(*   Spec        the gateway: client handlers, watchdog, schedule ticker   *)
(*   SpecWD      the gateway with one client and a device away for good    *)
(*   SpecDriver  the driver's write-then-verify operations on a serial     *)
(*               line whose replies are chosen by the environment          *)
(*   SpecRL      the rate limiter under a monotonic clock                  *)
(*   SpecSched   one ScheduleRunner polled under a wall clock              *)
(*   SpecDispatch  dispatch_command on the simulated chiller               *)
(*   SpecConn    the gateway behind its connection handlers: rate limit,   *)
(*               error responses, shutdown, with the watchdog              *)
(*   SpecMC      one connection addressing several chillers, with the      *)
(*               schedule ticker                                           *)
(* Temperatures are in hundredths of a degree, driver times in units of    *)
(* 50 ms, watchdog backoff in seconds.                                     *)
(***************************************************************************)
EXTENDS Integers, Sequences, FiniteSets, TLC

VARIABLES
    \* ---- gateway (remote_server.py) ----
    auth_token,        \* JulaboTCPServer.auth_token (NoToken = None)
    read_only,         \* JulaboTCPServer._read_only
    serial_connected,  \* JulaboTCPServer._serial_connected
    lock,              \* holder of JulaboTCPServer._lock, or NoHolder
    serial_open,       \* the default chiller's _serial is not None
    cpc,               \* per client handler: position in process_command
    creq,              \* per client handler: the message being processed
    out,               \* the response produced by the step just taken
    wpc,               \* watchdog thread position
    backoff,           \* _reconnect local: backoff
    retries,           \* _reconnect local: retries
    stop_event,        \* _SerialWatchdog._stop_event
    wd_log,            \* the message the watchdog logged in the step just taken
    given_up,          \* the watchdog has logged "giving up" at least once
    sched_reg,         \* _schedule_runners["default"]: a runner or NoRunner
    r_finished,        \* per runner: ScheduleRunner._finished
    r_applied,         \* per runner: _last_setpoint is not None
    tpc,               \* per ticker thread: position in _schedule_ticker
    tk_runner,         \* per ticker thread: local variable runner
    \* ---- driver (core.py) ----
    drv_open,          \* JulaboChiller._serial is not None
    drv_pc,            \* "idle" or "verify" (inside set_setpoint's loop)
    drv_op,            \* the operation last called
    drv_value,         \* its argument
    drv_attempt,       \* set_setpoint loop variable attempt
    drv_wire,          \* commands written to the serial line by this call
    drv_rbs,           \* replies read from the serial line by this call
    drv_result,        \* how the call ended
    drv_clock,         \* time.monotonic()
    drv_last,          \* JulaboChiller._last_command_time
    drv_prev_last,     \* _last_command_time when the call started
    \* ---- rate limiter (remote_server.py) ----
    rl_max,            \* _RateLimiter._max
    rl_window,         \* _RateLimiter._window
    rl_requests,       \* _RateLimiter._requests: key -> deque of timestamps
    rl_now,            \* time.monotonic()
    rl_hist,           \* per key: times of all calls answered True so far
    rl_last,           \* the allow() call just made: key, time, answer
    \* ---- schedule runner (schedule.py) ----
    sr_sched,          \* ScheduleRunner.schedule.steps
    sr_start,          \* ScheduleRunner._start_time (NoStart = None)
    sr_last,           \* ScheduleRunner._last_setpoint (NoSetpoint = None)
    sr_finished,       \* ScheduleRunner._finished
    sr_now,            \* time.time(), in minutes
    sr_call,           \* the start(), stop() or tick() call just made
    \* ---- dispatcher on a simulated chiller (dispatch.py, simulator.py) ----
    dsp_setpoint,      \* FakeChillerState.setpoint
    dsp_running,       \* FakeChillerState.running
    dsp_call,          \* the dispatch_command call just made
    \* ---- connection handlers (remote_server.py) ----
    hstate,            \* per client: position of its JulaboRequestHandler
    hline,             \* per client: the request line being handled
    rbuf,              \* per client: unread rest of an oversized line in rfile
    shutting_down,     \* JulaboTCPServer._shutting_down
    active_connections, \* JulaboTCPServer._active_connections
    sent,              \* the response written by the step just taken
    hend,              \* the connection ended or refused by the step just taken
    \* ---- configuration reload (remote_server.py) ----
    idle_timeout,      \* JulaboTCPServer._idle_timeout
    server_address,    \* JulaboTCPServer.server_address
    serial_port,       \* the serial device the default chiller was opened on
    cfg_call,          \* the reload_config call just made
    \* ---- audit trail (remote_server.py) ----
    audit_on,          \* _audit_logger is not None
    audit_log,         \* the records the audit logger received
    au_call,           \* the last command run with the lock held (transient)
    \* ---- schedule CSV parser (schedule.py) ----
    csv_in,            \* the rows of the CSV text handed to the parser
    csv_out,           \* what _parse_csv returned or raised
    \* ---- schedule registry per chiller (remote_server.py) ----
    schedule_runners,  \* _schedule_runners: chiller id -> runner (NoRunner = no entry)
    rn_state,          \* per runner created: unborn, running, or stopped (_finished)
    rn_id,             \* per runner: the chiller id it and its ticker thread were created for
    th_pc,             \* per ticker thread: where it is in _schedule_ticker
    th_runner,         \* per ticker thread: its local variable runner
    reg_call,          \* the _load_schedule or _stop_schedule call just made
    \* ---- main() (remote_server.py) ----
    main_pc,           \* where main() is: serving, or a step of its shutdown
    \* ---- connection workers calling allow() (remote_server.py) ----
    rlw_pc,            \* per connection worker: idle, or in allow() before the lock
    rlw_now,           \* per connection worker: the local variable now of allow()
    rlw_key,           \* per connection worker: the argument ip of allow()
    rlw_asked,         \* per key: time of its latest allow() call, NeverAsked if none
    \* ---- the device calls of one operation (remote_server.py, dispatch.py) ----
    dc_pc,             \* per worker: idle, waiting for self._lock, or inside 'with self._lock'
    dc_todo,           \* per worker: the device calls its operation has still to make
    dc_count,          \* per worker: the device calls its operation has made
    dc_last,           \* the worker that made the latest device call
    \* ---- the locks of the server and who holds them (remote_server.py) ----
    lk_holder,         \* per lock of the server: the worker inside its with block, or NoHolder
    lk_script          \* per worker: the lock steps and device calls it has still to make

gwVars == <<auth_token, read_only, serial_connected, lock, serial_open, cpc,
            creq, out, wpc, backoff, retries, stop_event, wd_log, given_up,
            sched_reg, r_finished, r_applied, tpc, tk_runner>>
drvVars == <<drv_open, drv_pc, drv_op, drv_value, drv_attempt, drv_wire,
             drv_rbs, drv_result, drv_clock, drv_last, drv_prev_last>>
rlVars == <<rl_max, rl_window, rl_requests, rl_now, rl_hist, rl_last>>
srVars == <<sr_sched, sr_start, sr_last, sr_finished, sr_now, sr_call>>
dspVars == <<dsp_setpoint, dsp_running, dsp_call>>
connVars == <<hstate, hline, rbuf, shutting_down, active_connections, sent,
              hend>>
cfgVars == <<idle_timeout, server_address, serial_port, cfg_call>>
auVars == <<audit_on, audit_log, au_call>>
csvVars == <<csv_in, csv_out>>
regVars == <<schedule_runners, rn_state, rn_id, th_pc, th_runner, reg_call>>
mainVars == <<main_pc>>
rlwVars == <<rlw_pc, rlw_now, rlw_key, rlw_asked>>
dcVars == <<dc_pc, dc_todo, dc_count, dc_last>>
lkVars == <<lk_holder, lk_script>>
vars == <<gwVars, drvVars, rlVars, srVars, dspVars, connVars,
              cfgVars,
              auVars,
              csvVars,
              regVars,
              mainVars,
              rlwVars,
              dcVars,
              lkVars>>

\* what the operations of one component leave alone
nonGwVars == <<drvVars, rlVars, srVars, dspVars,
              cfgVars,
              auVars,
              csvVars,
              regVars,
              mainVars,
              rlwVars,
              dcVars,
              lkVars>>
nonGwAuDcVars == <<drvVars, rlVars, srVars, dspVars,
              cfgVars,
              csvVars,
              regVars,
              mainVars,
              rlwVars,
              lkVars>>
nonGwMainVars == <<drvVars, rlVars, srVars, dspVars, cfgVars, auVars,
                   csvVars, regVars,
              rlwVars,
              dcVars,
              lkVars>>
nonGwRlVars == <<drvVars, srVars, dspVars,
              cfgVars,
              auVars,
              csvVars,
              regVars,
              mainVars,
              rlwVars,
              dcVars,
              lkVars>>
nonGwRlCfgVars == <<drvVars, srVars, dspVars,
              auVars,
              csvVars,
              regVars,
              mainVars,
              rlwVars,
              dcVars,
              lkVars>>
nonDrvVars == <<gwVars, rlVars, srVars, dspVars, connVars,
              cfgVars,
              auVars,
              csvVars,
              regVars,
              mainVars,
              rlwVars,
              dcVars,
              lkVars>>
nonRlVars == <<gwVars, drvVars, srVars, dspVars, connVars,
              cfgVars,
              auVars,
              csvVars,
              regVars,
              mainVars,
              rlwVars,
              dcVars,
              lkVars>>
nonRlRlwVars == <<gwVars, drvVars, srVars, dspVars, connVars,
              cfgVars,
              auVars,
              csvVars,
              regVars,
              mainVars,
              dcVars,
              lkVars>>
nonSrVars == <<gwVars, drvVars, rlVars, dspVars, connVars,
              cfgVars,
              auVars,
              csvVars,
              regVars,
              mainVars,
              rlwVars,
              dcVars,
              lkVars>>
nonDspVars == <<gwVars, drvVars, rlVars, srVars, connVars,
              cfgVars,
              auVars,
              csvVars,
              regVars,
              mainVars,
              rlwVars,
              dcVars,
              lkVars>>
nonCfgVars == <<gwVars, drvVars, rlVars, srVars, dspVars, connVars,
              auVars,
              csvVars,
              regVars,
              mainVars,
              rlwVars,
              dcVars,
              lkVars>>
nonAuVars == <<gwVars, drvVars, rlVars, srVars, dspVars, connVars, cfgVars,
              csvVars,
              regVars,
              mainVars,
              rlwVars,
              dcVars,
              lkVars>>
nonDspAuVars == <<gwVars, drvVars, rlVars, srVars, connVars, cfgVars,
              csvVars,
              regVars,
              mainVars,
              rlwVars,
              dcVars,
              lkVars>>
nonCsvVars == <<gwVars, drvVars, rlVars, srVars, dspVars, connVars, cfgVars, auVars,
              regVars,
              mainVars,
              rlwVars,
              dcVars,
              lkVars>>
nonRegVars == <<gwVars, drvVars, rlVars, srVars, dspVars, connVars, cfgVars, auVars, csvVars,
              mainVars,
              rlwVars,
              dcVars,
              lkVars>>
nonMainVars == <<gwVars, drvVars, rlVars, srVars, dspVars, connVars, cfgVars, auVars, csvVars, regVars,
              rlwVars,
              dcVars,
              lkVars>>
nonRlwVars == <<gwVars, drvVars, rlVars, srVars, dspVars, connVars, cfgVars, auVars, csvVars, regVars, mainVars,
              dcVars,
              lkVars>>
nonDcVars == <<gwVars, drvVars, rlVars, srVars, dspVars, connVars, cfgVars, auVars, csvVars, regVars, mainVars, rlwVars,
              lkVars>>
nonLkVars == <<gwVars, drvVars, rlVars, srVars, dspVars, connVars, cfgVars, auVars, csvVars, regVars, mainVars, rlwVars, dcVars>>

(***************************************************************************)
(* Program constants                                                       *)
(***************************************************************************)
WATCHDOG_INITIAL_BACKOFF == 5
WATCHDOG_MAX_BACKOFF == 60
WATCHDOG_BACKOFF_FACTOR == 2
MAX_WATCHDOG_RETRIES == 20

WRITE_COMMANDS == {"set_setpoint", "start", "stop", "set_running"}
SCHEDULE_WRITE == {"load_schedule", "stop_schedule"}
READ_COMMANDS == {"identify", "status", "get_setpoint", "temperature",
                  "is_running", "status_all"}
SCHEDULE_COMMANDS == {"load_schedule", "stop_schedule", "schedule_status"}

(***************************************************************************)
(* Gateway: inputs and workers                                             *)
(***************************************************************************)
NoToken == "none"
NoCommand == "none"
NoHolder == "free"
NoRunner == "none"
NoReq == [command |-> NoCommand, token |-> NoToken]
NoEvent == [client |-> "none", command |-> NoCommand, token |-> NoToken,
            resp |-> "none", touched |-> FALSE]

Clients == {"c1", "c2"}
Tickers == {"t1"}
Watchdog == "wd"
Workers == Clients \cup Tickers \cup {Watchdog}

Tokens == {NoToken, "secret", "wrong"}
Commands == READ_COMMANDS \cup WRITE_COMMANDS \cup SCHEDULE_COMMANDS
              \cup {"ping", "bogus", NoCommand}

\* what a call on an opened chiller can do: return, or raise one of these
DeviceFailures == {"TimeoutError", "JulaboError", "SerialException"}

Event(c, cmd, tok, r, t) ==
    [client |-> c, command |-> cmd, token |-> tok, resp |-> r, touched |-> t]

(***************************************************************************)
(* Gateway: initial state (JulaboTCPServer.__init__, _create_server)       *)
(***************************************************************************)
\* the value of a local variable of _reconnect while _reconnect is not running
NoBackoff == 0
NoRetries == -1

InitGW ==
    /\ auth_token \in {NoToken, "secret"}
    /\ read_only \in BOOLEAN
    /\ serial_connected = TRUE
    /\ lock = NoHolder
    /\ serial_open = TRUE
    /\ cpc = [c \in Clients |-> "idle"]
    /\ creq = [c \in Clients |-> NoReq]
    /\ out = NoEvent
    /\ wpc = "wait"
    /\ backoff = NoBackoff
    /\ retries = NoRetries
    /\ stop_event = FALSE
    /\ wd_log = "none"
    /\ given_up = FALSE
    /\ sched_reg = NoRunner
    /\ r_finished = [t \in Tickers |-> FALSE]
    /\ r_applied = [t \in Tickers |-> FALSE]
    /\ tpc = [t \in Tickers |-> "none"]
    /\ tk_runner = [t \in Tickers |-> NoRunner]

confVars == <<auth_token, read_only>>
clientVars == <<cpc, creq>>
wdVars == <<wpc, backoff, retries, stop_event, given_up>>
schedVars == <<sched_reg, r_finished, r_applied, tpc, tk_runner>>

\* what a call of a chiller method does: on a closed chiller the serial
\* property raises RuntimeError, on an opened one the call returns or fails
DeviceOutcomes == IF serial_open THEN {"ok"} \cup DeviceFailures
                  ELSE {"RuntimeError"}

(***************************************************************************)
(* The caller of process_command: a JulaboRequestHandler, or code that     *)
(* calls the method directly                                               *)
(***************************************************************************)
\* message.get("chiller_id") of a message without that key
NoChiller == "absent"
\* JulaboTCPServer._chillers: "default" and one chiller added by add_chiller
Registry == {"default", "aux"}
ChillerIds == {NoChiller, "aux", "ghost"}

NoLine == [kind |-> "none", command |-> NoCommand, token |-> NoToken,
           chiller |-> NoChiller]
NoResponse == [client |-> "none", command |-> NoCommand, status |-> "none",
               error |-> "none", echo |-> FALSE, version |-> FALSE,
               exc |-> "none", device |-> "none", asked |-> NoChiller]
NoEnd == [client |-> "none", reason |-> "none"]

ConnAtRest ==
    /\ hstate = [c \in Clients |-> "direct"]
    /\ hline = [c \in Clients |-> NoLine]
    /\ rbuf = [c \in Clients |-> NoLine]
    /\ shutting_down = FALSE
    /\ active_connections = 0
    /\ sent = NoResponse
    /\ hend = NoEnd

\* the classes an exception of each kind is an instance of
Bases(kind) ==
    IF kind = "JSONDecodeError" THEN {"JSONDecodeError", "ValueError"}
    ELSE IF kind = "JulaboError" THEN {"JulaboError", "RuntimeError"}
    ELSE IF kind \in {"PermissionError", "TimeoutError", "SerialException"}
         THEN {kind, "OSError"}
    ELSE {kind}

\* the except clause of _handle_loop
HANDLER_CATCHES == {"JSONDecodeError", "ValueError", "TypeError",
                    "PermissionError", "JulaboError", "TimeoutError",
                    "SerialException"}
Caught(kind) == Bases(kind) \cap HANDLER_CATCHES # {}

\* _sanitize_error: the fixed part of the message, and whether str(exc)
\* follows it
SanitizeError(kind) ==
    IF "PermissionError" \in Bases(kind)
    THEN [error |-> "Authentication failed", echo |-> FALSE]
    ELSE IF "ValueError" \in Bases(kind)
    THEN [error |-> "Invalid request", echo |-> TRUE]
    ELSE IF "TypeError" \in Bases(kind)
    THEN [error |-> "Invalid argument type", echo |-> FALSE]
    ELSE IF "TimeoutError" \in Bases(kind)
    THEN [error |-> "Device timeout", echo |-> FALSE]
    ELSE IF "JulaboError" \in Bases(kind)
    THEN [error |-> "Device error", echo |-> TRUE]
    ELSE [error |-> "Internal server error", echo |-> FALSE]

\* the dictionaries process_command returns
Returned == {"ok", "read_only_error", "reconnecting_error"}

\* the response object written for a request that ended as r: a dictionary
\* returned by process_command or built by _handle_loop (device and asked
\* are not part of it: the chiller that was called, and the chiller_id of
\* the request)
Response(c, cmd, r, dev) ==
    IF r = "ok"
    THEN [client |-> c, command |-> cmd, status |-> "ok", error |-> "none",
          echo |-> FALSE, version |-> TRUE, exc |-> "none", device |-> dev,
          asked |-> NoChiller]
    ELSE IF r = "read_only_error"
    THEN [client |-> c, command |-> cmd, status |-> "error",
          error |-> "Server is in read-only mode", echo |-> FALSE,
          version |-> FALSE, exc |-> "none", device |-> dev,
          asked |-> NoChiller]
    ELSE IF r = "reconnecting_error"
    THEN [client |-> c, command |-> cmd, status |-> "error",
          error |-> "Serial connection lost, reconnecting...",
          echo |-> FALSE, version |-> FALSE, exc |-> "none", device |-> dev,
          asked |-> NoChiller]
    ELSE IF r = "rate_limit_error"
    THEN [client |-> c, command |-> cmd, status |-> "error",
          error |-> "Rate limit exceeded", echo |-> FALSE,
          version |-> FALSE, exc |-> "none", device |-> dev,
          asked |-> NoChiller]
    ELSE IF r = "too_large_error"
    THEN [client |-> c, command |-> cmd, status |-> "error",
          error |-> "Message too large", echo |-> FALSE,
          version |-> FALSE, exc |-> "none", device |-> dev,
          asked |-> NoChiller]
    ELSE [client |-> c, command |-> cmd, status |-> "error",
          error |-> SanitizeError(r).error, echo |-> SanitizeError(r).echo,
          version |-> FALSE, exc |-> r, device |-> dev, asked |-> NoChiller]

\* a step in which no handler writes a response or ends
NoHandlerStep ==
    /\ sent' = NoResponse
    /\ hend' = NoEnd
    /\ UNCHANGED <<hstate, hline, rbuf, shutting_down, active_connections>>

\* _handle_loop after process_command (or json.loads) ended as r: a returned
\* dictionary or a caught exception is answered and the loop goes on; any
\* other exception leaves _handle_loop and handle(), whose finally clause
\* unregisters the connection
HandlerGets(c, cmd, r, dev) ==
    IF r \in Returned \/ Caught(r)
    THEN /\ sent' = [Response(c, cmd, r, dev) EXCEPT
                        !.asked = hline[c].chiller]
         /\ hend' = NoEnd
         /\ hstate' = [hstate EXCEPT ![c] = "reading"]
         /\ hline' = [hline EXCEPT ![c] = NoLine]
         /\ UNCHANGED <<rbuf, shutting_down, active_connections>>
    ELSE /\ sent' = NoResponse
         /\ hend' = [client |-> c, reason |-> r]
         /\ hstate' = [hstate EXCEPT ![c] = "none"]
         /\ hline' = [hline EXCEPT ![c] = NoLine]
         /\ rbuf' = [rbuf EXCEPT ![c] = NoLine]
         /\ active_connections' = active_connections - 1
         /\ UNCHANGED shutting_down

\* message.get("chiller_id", "default")
ChillerOf(c) ==
    IF hline[c].chiller = NoChiller THEN "default" ELSE hline[c].chiller

\* what the step of process_command just taken means to its caller
Caller(c) ==
    IF hstate[c] = "direct" \/ out' = NoEvent
    THEN NoHandlerStep
    ELSE HandlerGets(c, out'.command, out'.resp,
                     IF out'.touched THEN ChillerOf(c) ELSE "none")

(***************************************************************************)
(* process_command                                                         *)
(***************************************************************************)
\* message.get("token") as the server reads it: not at all without a
\* configured token
TokenRead(tok) == IF auth_token = NoToken THEN NoToken ELSE tok

\* GateAnswer with a read-only test that forgets the device write commands
GateAnswerWritesPass(cmd, tok) ==
    IF auth_token # NoToken /\ tok # auth_token THEN "PermissionError"
    ELSE IF cmd = NoCommand THEN "ValueError"
    ELSE IF read_only /\ cmd \in SCHEDULE_WRITE THEN "read_only_error"
    ELSE IF cmd = "ping" THEN "ok"
    ELSE "pass"

\* GateAnswer with a token test that lets a message without token through
GateAnswerMissingTokenPasses(cmd, tok) ==
    IF auth_token # NoToken /\ tok # NoToken /\ tok # auth_token
    THEN "PermissionError"
    ELSE IF cmd = NoCommand THEN "ValueError"
    ELSE IF read_only /\ (cmd \in WRITE_COMMANDS \/ cmd \in SCHEDULE_WRITE)
         THEN "read_only_error"
    ELSE IF cmd = "ping" THEN "ok"
    ELSE "pass"

\* GateAnswer without the fast path for ping
GateAnswerPingToDevice(cmd, tok) ==
    IF auth_token # NoToken /\ tok # auth_token THEN "PermissionError"
    ELSE IF cmd = NoCommand THEN "ValueError"
    ELSE IF read_only /\ (cmd \in WRITE_COMMANDS \/ cmd \in SCHEDULE_WRITE)
         THEN "read_only_error"
    ELSE "pass"

\* GateAnswer with the test for a missing command made before the token test
GateAnswerCommandFirst(cmd, tok) ==
    IF cmd = NoCommand THEN "ValueError"
    ELSE IF auth_token # NoToken /\ tok # auth_token THEN "PermissionError"
    ELSE IF read_only /\ (cmd \in WRITE_COMMANDS \/ cmd \in SCHEDULE_WRITE)
         THEN "read_only_error"
    ELSE IF cmd = "ping" THEN "ok"
    ELSE "pass"

\* the checks made before _serial_connected is read: the answer given at
\* once, or "pass" when the request goes on
GateAnswer(cmd, tok) ==
    IF auth_token # NoToken /\ tok # auth_token THEN "PermissionError"
    ELSE IF cmd = NoCommand THEN "ValueError"
    ELSE IF read_only /\ (cmd \in WRITE_COMMANDS \/ cmd \in SCHEDULE_WRITE)
         THEN "read_only_error"
    ELSE IF cmd = "ping" THEN "ok"
    ELSE "pass"

Request(c, cmd, tok) ==
    /\ cpc[c] = "idle"
    /\ LET a == GateAnswer(cmd, tok) IN
       IF a = "pass"
       THEN /\ cpc' = [cpc EXCEPT ![c] = "connchk"]
            /\ creq' = [creq EXCEPT ![c] = [command |-> cmd,
                                            token |-> TokenRead(tok)]]
            /\ out' = NoEvent
       ELSE /\ out' = Event(c, cmd, TokenRead(tok), a, FALSE)
            /\ UNCHANGED clientVars
    /\ wd_log' = "none"
    /\ UNCHANGED <<confVars, serial_connected, lock, serial_open, wdVars,
                   schedVars>>
    /\ UNCHANGED nonGwVars
    /\ Caller(c)

\* ConnectedCheck without the look-up of the chiller_id
ConnectedCheckUnresolved(c) ==
    /\ cpc[c] = "connchk"
    /\ IF serial_connected
       THEN /\ cpc' = [cpc EXCEPT ![c] = "lockwait"]
            /\ out' = NoEvent
            /\ UNCHANGED creq
       ELSE /\ cpc' = [cpc EXCEPT ![c] = "idle"]
            /\ out' = Event(c, creq[c].command, creq[c].token,
                            "reconnecting_error", FALSE)
            /\ creq' = [creq EXCEPT ![c] = NoReq]
    /\ wd_log' = "none"
    /\ UNCHANGED <<confVars, serial_connected, lock, serial_open, wdVars,
                   schedVars>>
    /\ UNCHANGED nonGwVars
    /\ Caller(c)

\* ConnectedCheck with one connected flag per chiller: only a request for
\* the chiller the watchdog found failing is refused
ConnectedCheckPerDevice(c) ==
    /\ cpc[c] = "connchk"
    /\ IF (serial_connected \/ ChillerOf(c) # "default")
          /\ ChillerOf(c) \in Registry
       THEN /\ cpc' = [cpc EXCEPT ![c] = "lockwait"]
            /\ out' = NoEvent
            /\ UNCHANGED creq
       ELSE /\ cpc' = [cpc EXCEPT ![c] = "idle"]
            /\ out' = Event(c, creq[c].command, creq[c].token,
                            IF ChillerOf(c) \in Registry
                            THEN "reconnecting_error" ELSE "ValueError",
                            FALSE)
            /\ creq' = [creq EXCEPT ![c] = NoReq]
    /\ wd_log' = "none"
    /\ UNCHANGED <<confVars, serial_connected, lock, serial_open, wdVars,
                   schedVars>>
    /\ UNCHANGED nonGwVars
    /\ Caller(c)

\* "if not self._serial_connected: return error", read without the lock,
\* then _resolve_chiller
ConnectedCheck(c) ==
    /\ cpc[c] = "connchk"
    /\ IF serial_connected /\ ChillerOf(c) \in Registry
       THEN /\ cpc' = [cpc EXCEPT ![c] = "lockwait"]
            /\ out' = NoEvent
            /\ UNCHANGED creq
       ELSE /\ cpc' = [cpc EXCEPT ![c] = "idle"]
            /\ out' = Event(c, creq[c].command, creq[c].token,
                            IF serial_connected THEN "ValueError"
                            ELSE "reconnecting_error", FALSE)
            /\ creq' = [creq EXCEPT ![c] = NoReq]
    /\ wd_log' = "none"
    /\ UNCHANGED <<confVars, serial_connected, lock, serial_open, wdVars,
                   schedVars>>
    /\ UNCHANGED nonGwVars
    /\ Caller(c)

\* "with self._lock:" entered by a client handler
ClientAcquire(c) ==
    /\ cpc[c] = "lockwait"
    /\ lock = NoHolder
    /\ lock' = c
    /\ cpc' = [cpc EXCEPT ![c] = "dispatch"]
    /\ out' = NoEvent
    /\ wd_log' = "none"
    /\ UNCHANGED <<confVars, serial_connected, serial_open, creq, wdVars,
                   schedVars>>
    /\ UNCHANGED nonGwVars
    /\ NoHandlerStep

\* what a call of a method of the chiller registered as dev does: only the
\* default chiller is ever closed (by the watchdog)
DeviceOutcomesOf(dev) ==
    IF dev = "default" THEN DeviceOutcomes ELSE {"ok"} \cup DeviceFailures

\* the ways the body of "with self._lock:" can end for a command sent to
\* the chiller dev: <<response, chiller method called>>
DispatchOutcomes(cmd, dev) ==
    LET device == {<<o, TRUE>> : o \in DeviceOutcomesOf(dev)} IN
    IF cmd = "load_schedule" THEN {<<"ok", FALSE>>, <<"ValueError", FALSE>>}
    ELSE IF cmd \in {"stop_schedule", "schedule_status"} THEN {<<"ok", FALSE>>}
    ELSE IF cmd = "set_setpoint"
         THEN device \cup {<<"ValueError", FALSE>>, <<"ValueError", TRUE>>,
                           <<"TypeError", FALSE>>}
    ELSE IF cmd = "set_running" THEN device \cup {<<"ValueError", FALSE>>}
    ELSE IF cmd \in READ_COMMANDS \cup WRITE_COMMANDS THEN device
    ELSE {<<"ValueError", FALSE>>}

\* _load_schedule: stop the existing runner, install a started one, start
\* its ticker thread (t names both the new runner and its thread)
LoadSchedule(t) ==
    /\ tpc[t] = "none"
    /\ r_finished' = [x \in Tickers |->
                        IF x = t THEN FALSE
                        ELSE IF x = sched_reg THEN TRUE ELSE r_finished[x]]
    /\ r_applied' = [r_applied EXCEPT ![t] = FALSE]
    /\ sched_reg' = t
    /\ tpc' = [tpc EXCEPT ![t] = "top"]
    /\ UNCHANGED tk_runner

\* _stop_schedule
StopSchedule ==
    /\ r_finished' = [x \in Tickers |->
                        IF x = sched_reg THEN TRUE ELSE r_finished[x]]
    /\ sched_reg' = NoRunner
    /\ UNCHANGED <<r_applied, tpc, tk_runner>>

\* the body of "with self._lock:" ends, the lock is released and the
\* response (or the exception) leaves process_command
DispatchDone(c) ==
    /\ cpc[c] = "dispatch"
    /\ \E o \in DispatchOutcomes(creq[c].command, ChillerOf(c)) :
         /\ out' = Event(c, creq[c].command, creq[c].token, o[1], o[2])
         /\ IF creq[c].command = "load_schedule" /\ o[1] = "ok"
            THEN \E t \in Tickers : LoadSchedule(t)
            ELSE IF creq[c].command = "stop_schedule"
                 THEN StopSchedule
                 ELSE UNCHANGED schedVars
    /\ lock' = NoHolder
    /\ cpc' = [cpc EXCEPT ![c] = "idle"]
    /\ creq' = [creq EXCEPT ![c] = NoReq]
    /\ wd_log' = "none"
    /\ UNCHANGED <<confVars, serial_connected, serial_open, wdVars>>
    /\ UNCHANGED nonGwVars
    /\ Caller(c)

\* reload_config applying a read_only key, under the lock
ReloadConfig(ro) ==
    /\ lock = NoHolder
    /\ read_only' = ro
    /\ out' = NoEvent
    /\ wd_log' = "none"
    /\ UNCHANGED <<auth_token, serial_connected, lock, serial_open,
                   clientVars, wdVars, schedVars>>
    /\ UNCHANGED nonGwVars
    /\ NoHandlerStep

(***************************************************************************)
(* _SerialWatchdog._run and _reconnect                                     *)
(***************************************************************************)
Min(a, b) == IF a < b THEN a ELSE b

\* stop_event.wait(WATCHDOG_INTERVAL) timed out: "with self._server._lock:"
\* is entered and get_status() is called
WatchdogCheck ==
    /\ wpc = "wait"
    /\ ~stop_event
    /\ lock = NoHolder
    /\ lock' = Watchdog
    /\ wpc' = "status"
    /\ out' = NoEvent
    /\ wd_log' = "none"
    /\ UNCHANGED <<confVars, serial_connected, serial_open, clientVars,
                   backoff, retries, stop_event, given_up, schedVars>>
    /\ UNCHANGED nonGwVars
    /\ NoHandlerStep

\* get_status() returns (back to the wait) or raises (the failure branch)
WatchdogStatusDone ==
    /\ wpc = "status"
    /\ \E o \in DeviceOutcomes :
         IF o = "ok"
         THEN wpc' = "wait" /\ wd_log' = "none"
         ELSE wpc' = "mark" /\ wd_log' = "detected failure"
    /\ lock' = NoHolder
    /\ out' = NoEvent
    /\ UNCHANGED <<confVars, serial_connected, serial_open, clientVars,
                   backoff, retries, stop_event, given_up, schedVars>>
    /\ UNCHANGED nonGwVars
    /\ NoHandlerStep

\* "with self._server._lock: self._server._serial_connected = False"
WatchdogMark ==
    /\ wpc = "mark"
    /\ lock = NoHolder
    /\ serial_connected' = FALSE
    /\ wpc' = "closewait"
    /\ out' = NoEvent
    /\ wd_log' = "none"
    /\ UNCHANGED <<confVars, lock, serial_open, clientVars,
                   backoff, retries, stop_event, given_up, schedVars>>
    /\ UNCHANGED nonGwVars
    /\ NoHandlerStep

\* "with self._server._lock: self._server.chiller.close()" is entered
WatchdogCloseAcquire ==
    /\ wpc = "closewait"
    /\ lock = NoHolder
    /\ lock' = Watchdog
    /\ wpc' = "closing"
    /\ out' = NoEvent
    /\ wd_log' = "none"
    /\ UNCHANGED <<confVars, serial_connected, serial_open, clientVars,
                   backoff, retries, stop_event, given_up, schedVars>>
    /\ UNCHANGED nonGwVars
    /\ NoHandlerStep

\* the locals _reconnect starts with
ReconnectStart ==
    /\ backoff' = WATCHDOG_INITIAL_BACKOFF
    /\ retries' = 0

\* _reconnect returns: its locals are gone
ReconnectReturn ==
    /\ backoff' = NoBackoff
    /\ retries' = NoRetries
    /\ wpc' = "wait"

\* close() returns (the port is released) or raises (swallowed); the lock is
\* released and _reconnect() is entered
WatchdogCloseDone ==
    /\ wpc = "closing"
    /\ \E closed \in BOOLEAN :
         serial_open' = IF closed THEN FALSE ELSE serial_open
    /\ lock' = NoHolder
    /\ ReconnectStart
    /\ wpc' = "rc_wait"
    /\ out' = NoEvent
    /\ wd_log' = "none"
    /\ UNCHANGED <<confVars, serial_connected, clientVars, stop_event,
                   given_up, schedVars>>
    /\ UNCHANGED nonGwVars
    /\ NoHandlerStep

\* stop_event.wait(backoff) timed out: retries is incremented; past the
\* maximum the watchdog logs "giving up" and _reconnect returns into the
\* loop of _run, otherwise the lock is taken for connect() and identify()
WatchdogRetry ==
    /\ wpc = "rc_wait"
    /\ ~stop_event
    /\ IF retries + 1 > MAX_WATCHDOG_RETRIES
       THEN /\ wd_log' = "giving up"
            /\ given_up' = TRUE
            /\ ReconnectReturn
            /\ UNCHANGED lock
       ELSE /\ lock = NoHolder
            /\ lock' = Watchdog
            /\ retries' = retries + 1
            /\ wpc' = "rc_attempt"
            /\ wd_log' = "none"
            /\ UNCHANGED <<backoff, given_up>>
    /\ out' = NoEvent
    /\ UNCHANGED <<confVars, serial_connected, serial_open, clientVars,
                   stop_event, schedVars>>
    /\ UNCHANGED nonGwVars
    /\ NoHandlerStep

\* the ways connect() followed by identify() can end:
\* <<the port is open afterwards, both returned>>; connect() on an open
\* port does nothing. The device stays away for at most maxfail attempts
\* of a sequence
AttemptOutcomes(maxfail) ==
    (IF retries <= maxfail
     THEN (IF serial_open THEN {} ELSE {<<FALSE, FALSE>>})
              \cup {<<TRUE, FALSE>>}
     ELSE {})
        \cup {<<TRUE, TRUE>>}

\* ReconnectSuccess that forgets to mark the device connected
ReconnectSuccessUnmarked ==
    /\ UNCHANGED serial_connected
    /\ wd_log' = "reconnected"
    /\ ReconnectReturn

\* what _reconnect does when connect() and identify() have returned
ReconnectSuccess ==
    /\ serial_connected' = TRUE
    /\ wd_log' = "reconnected"
    /\ ReconnectReturn

\* ReconnectFailure without the cap on the backoff
ReconnectFailureUncapped ==
    /\ backoff' = backoff * WATCHDOG_BACKOFF_FACTOR
    /\ wd_log' = "reconnect failed"
    /\ wpc' = "rc_wait"
    /\ UNCHANGED <<serial_connected, retries>>

\* what _reconnect does when connect() or identify() has raised
ReconnectFailure ==
    /\ backoff' = Min(backoff * WATCHDOG_BACKOFF_FACTOR, WATCHDOG_MAX_BACKOFF)
    /\ wd_log' = "reconnect failed"
    /\ wpc' = "rc_wait"
    /\ UNCHANGED <<serial_connected, retries>>

WatchdogAttemptDone(maxfail) ==
    /\ wpc = "rc_attempt"
    /\ \E o \in AttemptOutcomes(maxfail) :
         /\ serial_open' = o[1]
         /\ IF o[2] THEN ReconnectSuccess ELSE ReconnectFailure
    /\ lock' = NoHolder
    /\ out' = NoEvent
    /\ UNCHANGED <<confVars, clientVars, stop_event, given_up, schedVars>>
    /\ UNCHANGED nonGwVars
    /\ NoHandlerStep

\* _SerialWatchdog.stop() sets the event
WatchdogStop ==
    /\ ~stop_event
    /\ stop_event' = TRUE
    /\ out' = NoEvent
    /\ wd_log' = "none"
    /\ UNCHANGED <<confVars, serial_connected, lock, serial_open, clientVars,
                   wpc, backoff, retries, given_up, schedVars>>
    /\ UNCHANGED nonGwVars
    /\ NoHandlerStep

\* a wait on the set event returns True: _reconnect returns and the loop of
\* _run ends
WatchdogExit ==
    /\ wpc \in {"wait", "rc_wait"}
    /\ stop_event
    /\ wpc' = "stopped"
    /\ backoff' = NoBackoff
    /\ retries' = NoRetries
    /\ out' = NoEvent
    /\ wd_log' = "none"
    /\ UNCHANGED <<confVars, serial_connected, lock, serial_open, clientVars,
                   stop_event, given_up, schedVars>>
    /\ UNCHANGED nonGwVars
    /\ NoHandlerStep

(***************************************************************************)
(* _schedule_ticker, ScheduleRunner.tick and _schedule_apply_setpoint      *)
(***************************************************************************)
\* the ticker ends: "if self._schedule_runners.get(id) is runner: del ..."
RemoveIfSame(r) == sched_reg' = IF sched_reg = r THEN NoRunner ELSE sched_reg

\* top of the loop: read the registry; return when there is no running
\* runner, otherwise tick() it. The elapsed time decides whether this tick
\* is the final one, the target whether the callback is invoked (always on
\* the first tick of a runner, whose _last_setpoint is None)
TickerTick(t) ==
    /\ tpc[t] = "top"
    /\ IF sched_reg = NoRunner \/ r_finished[sched_reg]
       THEN /\ tpc' = [tpc EXCEPT ![t] = "none"]
            /\ tk_runner' = [tk_runner EXCEPT ![t] = NoRunner]
            /\ UNCHANGED <<r_finished, sched_reg>>
       ELSE \E final \in BOOLEAN, changed \in BOOLEAN :
              IF changed \/ ~r_applied[sched_reg]
              THEN /\ tpc' = [tpc EXCEPT ![t] = "lockwait"]
                   /\ tk_runner' = [tk_runner EXCEPT ![t] = sched_reg]
                   /\ UNCHANGED <<r_finished, sched_reg>>
              ELSE IF final
              THEN /\ r_finished' = [r_finished EXCEPT ![sched_reg] = TRUE]
                   /\ sched_reg' = NoRunner
                   /\ tpc' = [tpc EXCEPT ![t] = "none"]
                   /\ tk_runner' = [tk_runner EXCEPT ![t] = NoRunner]
              ELSE UNCHANGED <<tpc, tk_runner, r_finished, sched_reg>>
    /\ out' = NoEvent
    /\ wd_log' = "none"
    /\ UNCHANGED <<confVars, serial_connected, lock, serial_open, clientVars,
                   wdVars, r_applied>>
    /\ UNCHANGED nonGwVars
    /\ NoHandlerStep

\* TickerAcquire without "with self._lock:"
TickerAcquireUnlocked(t) ==
    /\ tpc[t] = "lockwait"
    /\ tpc' = [tpc EXCEPT ![t] = "apply"]
    /\ out' = NoEvent
    /\ wd_log' = "none"
    /\ UNCHANGED <<confVars, serial_connected, lock, serial_open, clientVars,
                   wdVars, sched_reg, r_finished, r_applied, tk_runner>>
    /\ UNCHANGED nonGwVars
    /\ NoHandlerStep

\* _schedule_apply_setpoint: "with self._lock:" is entered
TickerAcquire(t) ==
    /\ tpc[t] = "lockwait"
    /\ lock = NoHolder
    /\ lock' = t
    /\ tpc' = [tpc EXCEPT ![t] = "apply"]
    /\ out' = NoEvent
    /\ wd_log' = "none"
    /\ UNCHANGED <<confVars, serial_connected, serial_open, clientVars,
                   wdVars, sched_reg, r_finished, r_applied, tk_runner>>
    /\ UNCHANGED nonGwVars
    /\ NoHandlerStep

\* chiller.set_setpoint(value) returns or raises; the lock is released.
\* After a return tick() records the value and, when the elapsed time was
\* at or past the last step, marks the runner finished; the ticker removes
\* a finished runner and ends. After a raise the ticker stops and removes
\* the runner
TickerApplyDone(t) ==
    /\ tpc[t] = "apply"
    /\ LET r == tk_runner[t] IN
       \E o \in DeviceOutcomes, final \in BOOLEAN :
         IF o = "ok"
         THEN /\ r_applied' = [r_applied EXCEPT ![r] = TRUE]
              /\ IF final \/ r_finished[r]
                 THEN /\ r_finished' = [r_finished EXCEPT ![r] = TRUE]
                      /\ RemoveIfSame(r)
                      /\ tpc' = [tpc EXCEPT ![t] = "none"]
                      /\ tk_runner' = [tk_runner EXCEPT ![t] = NoRunner]
                 ELSE /\ tpc' = [tpc EXCEPT ![t] = "top"]
                      /\ UNCHANGED <<r_finished, sched_reg, tk_runner>>
         ELSE /\ IF sched_reg = r
                 THEN r_finished' = [r_finished EXCEPT ![r] = TRUE]
                 ELSE UNCHANGED r_finished
              /\ RemoveIfSame(r)
              /\ tpc' = [tpc EXCEPT ![t] = "none"]
              /\ tk_runner' = [tk_runner EXCEPT ![t] = NoRunner]
              /\ UNCHANGED r_applied
    /\ lock' = NoHolder
    /\ out' = NoEvent
    /\ wd_log' = "none"
    /\ UNCHANGED <<confVars, serial_connected, serial_open, clientVars,
                   wdVars>>
    /\ UNCHANGED nonGwVars
    /\ NoHandlerStep

(***************************************************************************)
(* JulaboChiller (core.py)                                                 *)
(***************************************************************************)
SETPOINT_MIN == -5000
SETPOINT_MAX == 20000
Tolerance == 5
MIN_COMMAND_INTERVAL == 2
VerifyDelay == 1
VerifyAttempts == 3

MaxDrvClock == 6

Abs(x) == IF x < 0 THEN 0 - x ELSE x

\* "{value:.1f}": the value rounded to tenths of a degree, ties to even
Format1(v) ==
    LET lo == (v \div 10) * 10
        r == v - lo
    IN  IF r < 5 THEN lo
        ELSE IF r > 5 THEN lo + 10
        ELSE IF (lo \div 10) % 2 = 0 THEN lo ELSE lo + 10

SetpointInputs == {SETPOINT_MIN - 1, SETPOINT_MIN, 2504, SETPOINT_MAX,
                   SETPOINT_MAX + 1}

\* a line read from the serial port: nothing (timeout), an "error ..." line,
\* a line float() cannot parse, or a number
Reply(k, n) == [kind |-> k, v |-> n]
NoReply == Reply("timeout", 0)
ErrorReply == Reply("error", 0)
GarbageReply == Reply("garbage", 0)
SetpointReplies(v) ==
    {NoReply, ErrorReply, GarbageReply}
        \cup {Reply("value", n) : n \in {Format1(v), v + Tolerance,
                                         v + Tolerance + 1,
                                         v - Tolerance - 1}}
ModeReplies == {"timeout", "error", "garbage", "0", "1"}

\* InRange with the bounds excluded
InRangeStrict(v) == SETPOINT_MIN < v /\ v < SETPOINT_MAX
InRange(v) == SETPOINT_MIN <= v /\ v <= SETPOINT_MAX
WithinTolerance(a, b) == Abs(a - b) <= Tolerance

\* _enforce_rate_limit: the time at which the command goes out
AfterRateLimit(now, last) ==
    IF now - last < MIN_COMMAND_INTERVAL
    THEN last + MIN_COMMAND_INTERVAL
    ELSE now

InitDrv ==
    /\ drv_open = TRUE
    /\ drv_pc = "idle"
    /\ drv_op = "none"
    /\ drv_value = 0
    /\ drv_attempt = 0
    /\ drv_wire = <<>>
    /\ drv_rbs = <<>>
    /\ drv_result = "none"
    /\ drv_clock \in {0, 3}
    /\ drv_last = 0
    /\ drv_prev_last = 0

\* connect() and close()
DrvConnect ==
    /\ drv_pc = "idle"
    /\ ~drv_open
    /\ drv_open' = TRUE
    /\ UNCHANGED <<drv_pc, drv_op, drv_value, drv_attempt, drv_wire, drv_rbs,
                   drv_result, drv_clock, drv_last, drv_prev_last>>
    /\ UNCHANGED nonDrvVars

DrvClose ==
    /\ drv_pc = "idle"
    /\ drv_open
    /\ drv_open' = FALSE
    /\ UNCHANGED <<drv_pc, drv_op, drv_value, drv_attempt, drv_wire, drv_rbs,
                   drv_result, drv_clock, drv_last, drv_prev_last>>
    /\ UNCHANGED nonDrvVars

\* time passes between two calls
DrvTick ==
    /\ drv_pc = "idle"
    /\ drv_clock < MaxDrvClock
    /\ drv_clock' = drv_clock + 1
    /\ UNCHANGED <<drv_open, drv_pc, drv_op, drv_value, drv_attempt, drv_wire,
                   drv_rbs, drv_result, drv_last, drv_prev_last>>
    /\ UNCHANGED nonDrvVars

\* set_setpoint(value) up to the verification loop: the range check, then
\* _write("out_sp_00 ...")
SetSetpoint(v) ==
    /\ drv_pc = "idle"
    /\ drv_clock <= MaxDrvClock
    /\ drv_op' = "set_setpoint"
    /\ drv_value' = v
    /\ drv_prev_last' = drv_last
    /\ drv_rbs' = <<>>
    /\ drv_attempt' = 0
    /\ IF ~InRange(v)
       THEN /\ drv_result' = "ValueError"
            /\ drv_wire' = <<>>
            /\ UNCHANGED <<drv_pc, drv_clock, drv_last>>
       ELSE LET t == AfterRateLimit(drv_clock, drv_last) IN
            /\ drv_clock' = t
            /\ drv_last' = t
            /\ IF drv_open
               THEN /\ drv_wire' = << <<"out_sp_00", Format1(v)>> >>
                    /\ drv_result' = "none"
                    /\ drv_pc' = "verify"
               ELSE /\ drv_wire' = <<>>
                    /\ drv_result' = "RuntimeError"
                    /\ UNCHANGED drv_pc
    /\ UNCHANGED drv_open
    /\ UNCHANGED nonDrvVars

\* VerifyResult that gives up after the first failed read-back
VerifyResultNoRetry(value, attempt, reply) ==
    IF reply.kind = "garbage" THEN "ValueError"
    ELSE IF reply.kind \in {"timeout", "error"} THEN "state unknown"
    ELSE IF WithinTolerance(reply.v, value) THEN "ok"
    ELSE "did not acknowledge"

\* how one pass of the verification loop ends for a reply: the result of
\* the call, or "none" when the loop goes on
VerifyResult(value, attempt, reply) ==
    IF reply.kind = "garbage" THEN "ValueError"
    ELSE IF reply.kind \in {"timeout", "error"}
         THEN IF attempt = VerifyAttempts - 1 THEN "state unknown" ELSE "none"
    ELSE IF WithinTolerance(reply.v, value) THEN "ok"
    ELSE IF attempt = VerifyAttempts - 1 THEN "did not acknowledge"
    ELSE "none"

\* one pass of "for attempt in range(3)": sleep, get_setpoint(), compare
VerifyStep(reply) ==
    /\ drv_pc = "verify"
    /\ LET t == AfterRateLimit(drv_clock + VerifyDelay, drv_last)
           res == VerifyResult(drv_value, drv_attempt, reply)
       IN  /\ drv_clock' = t
           /\ drv_last' = t
           /\ drv_wire' = Append(drv_wire, <<"in_sp_00">>)
           /\ drv_rbs' = Append(drv_rbs, reply)
           /\ drv_result' = res
           /\ IF res = "none"
              THEN drv_attempt' = drv_attempt + 1 /\ UNCHANGED drv_pc
              ELSE drv_pc' = "idle" /\ UNCHANGED drv_attempt
    /\ UNCHANGED <<drv_open, drv_op, drv_value, drv_prev_last>>
    /\ UNCHANGED nonDrvVars

\* RunningResult that does not compare the read-back with the request
RunningResultUnchecked(start, reply) ==
    IF reply = "timeout" THEN "TimeoutError"
    ELSE IF reply = "error" THEN "JulaboError"
    ELSE "ok"

\* how set_running(start) ends for the reply to its read-back
RunningResult(start, reply) ==
    IF reply = "timeout" THEN "TimeoutError"
    ELSE IF reply = "error" THEN "JulaboError"
    ELSE IF (reply = "1") # start THEN "did not acknowledge"
    ELSE "ok"

\* set_running(start): _write("out_mode_05 ..."), then is_running()
SetRunning(start, reply) ==
    /\ drv_pc = "idle"
    /\ drv_clock <= MaxDrvClock
    /\ drv_op' = "set_running"
    /\ drv_value' = (IF start THEN 1 ELSE 0)
    /\ drv_prev_last' = drv_last
    /\ drv_attempt' = 0
    /\ LET t1 == AfterRateLimit(drv_clock, drv_last)
           t2 == AfterRateLimit(t1, t1)
       IN  IF drv_open
           THEN /\ drv_clock' = t2
                /\ drv_last' = t2
                /\ drv_wire' = << <<"out_mode_05", IF start THEN 1 ELSE 0>>,
                                  <<"in_mode_05">> >>
                /\ drv_rbs' = <<reply>>
                /\ drv_result' = RunningResult(start, reply)
           ELSE /\ drv_clock' = t1
                /\ drv_last' = t1
                /\ drv_wire' = <<>>
                /\ drv_rbs' = <<>>
                /\ drv_result' = "RuntimeError"
    /\ UNCHANGED <<drv_open, drv_pc>>
    /\ UNCHANGED nonDrvVars

(***************************************************************************)
(* _RateLimiter (remote_server.py)                                         *)
(***************************************************************************)
MaxRLMax == 2
MaxRLWindow == 2
MaxRLTime == 4

RLKeys == {"ip1", "ip2"}
NoCall == [key |-> "none", time |-> 0, answer |-> FALSE, recent |-> 0]

InitRL ==
    /\ rl_max \in 1..MaxRLMax
    /\ rl_window \in 1..MaxRLWindow
    /\ rl_requests = << >>
    /\ rl_now = 0
    /\ rl_hist = [k \in RLKeys |-> <<>>]
    /\ rl_last = NoCall

\* "while q and q[0] < now - self._window: q.popleft()"
RECURSIVE Purge(_, _, _)
Purge(q, now, window) ==
    IF q # <<>> /\ Head(q) < now - window
    THEN Purge(Tail(q), now, window)
    ELSE q

\* the deque of ip after the purge, <<>> when the key is absent or evicted
Remaining(requests, ip, now, window) ==
    IF ip \in DOMAIN requests THEN Purge(requests[ip], now, window) ELSE <<>>

\* Allowed with the limit compared by > instead of >=
AllowedOffByOne(requests, ip, now, window, max) ==
    LET q == Remaining(requests, ip, now, window)
    IN  ~(q # <<>> /\ Len(q) > max)

\* the answer of allow(ip)
Allowed(requests, ip, now, window, max) ==
    LET q == Remaining(requests, ip, now, window)
    IN  ~(q # <<>> /\ Len(q) >= max)

\* _requests after allow(ip)
AfterAllow(requests, ip, now, window, max) ==
    LET q == Remaining(requests, ip, now, window)
        others == DOMAIN requests \ {ip}
    IN  IF q # <<>> /\ Len(q) >= max
        THEN [k \in others \cup {ip} |-> IF k = ip THEN q ELSE requests[k]]
        ELSE [k \in others \cup {ip} |->
                 IF k = ip THEN Append(q, now) ELSE requests[k]]

\* the calls of a history that are not older than the window at time now
RECURSIVE CountRecent(_, _, _)
CountRecent(h, now, window) ==
    IF h = <<>> THEN 0
    ELSE (IF Head(h) >= now - window THEN 1 ELSE 0)
            + CountRecent(Tail(h), now, window)

\* what a call of allow(ip) does to the limiter
AllowCall(ip) ==
    /\ LET ans == Allowed(rl_requests, ip, rl_now, rl_window, rl_max) IN
       /\ rl_requests' = AfterAllow(rl_requests, ip, rl_now, rl_window, rl_max)
       /\ rl_last' = [key |-> ip, time |-> rl_now, answer |-> ans,
                      recent |-> CountRecent(rl_hist[ip], rl_now, rl_window)]
       /\ rl_hist' = IF ans
                     THEN [rl_hist EXCEPT ![ip] = Append(@, rl_now)]
                     ELSE rl_hist
    /\ UNCHANGED <<rl_max, rl_window, rl_now>>

RLAllow(ip) ==
    /\ AllowCall(ip)
    /\ UNCHANGED nonRlVars

\* the monotonic clock advances
RLTick ==
    /\ rl_now < MaxRLTime
    /\ rl_now' = rl_now + 1
    /\ rl_last' = NoCall
    /\ UNCHANGED <<rl_max, rl_window, rl_requests, rl_hist>>
    /\ UNCHANGED nonRlVars

(***************************************************************************)
(* _RateLimiter.allow called by several connection workers                 *)
(***************************************************************************)
RLWorkers == {"w1", "w2"}
MaxRLCTime == 3
NeverAsked == -1

RlwAtRest ==
    /\ rlw_pc = [w \in RLWorkers |-> "idle"]
    /\ rlw_now = [w \in RLWorkers |-> 0]
    /\ rlw_key = [w \in RLWorkers |-> "none"]
    /\ rlw_asked = [k \in RLKeys |-> NeverAsked]

\* allow(ip), first statement: "now = time.monotonic()", before the lock
RLReadClock(w, ip) ==
    /\ rlw_pc[w] = "idle"
    /\ rlw_pc' = [rlw_pc EXCEPT ![w] = "lockwait"]
    /\ rlw_now' = [rlw_now EXCEPT ![w] = rl_now]
    /\ rlw_key' = [rlw_key EXCEPT ![w] = ip]
    /\ rlw_asked' = [rlw_asked EXCEPT ![ip] = rl_now]
    /\ rl_last' = NoCall
    /\ UNCHANGED <<rl_max, rl_window, rl_requests, rl_now, rl_hist>>
    /\ UNCHANGED nonRlRlwVars

\* allow(ip), the body of "with self._lock:", run with the worker's now
RLLockedBody(w) ==
    /\ rlw_pc[w] = "lockwait"
    /\ LET ip == rlw_key[w]
           now == rlw_now[w]
           ans == Allowed(rl_requests, ip, now, rl_window, rl_max)
       IN  /\ rl_requests' = AfterAllow(rl_requests, ip, now, rl_window, rl_max)
           /\ rl_last' = [key |-> ip, time |-> now, answer |-> ans,
                          recent |-> CountRecent(rl_hist[ip], now, rl_window)]
           /\ rl_hist' = IF ans THEN [rl_hist EXCEPT ![ip] = Append(@, now)]
                         ELSE rl_hist
    /\ rlw_pc' = [rlw_pc EXCEPT ![w] = "idle"]
    /\ UNCHANGED <<rlw_now, rlw_key, rlw_asked>>
    /\ UNCHANGED <<rl_max, rl_window, rl_now>>
    /\ UNCHANGED nonRlRlwVars

\* the monotonic clock advances while workers are anywhere in allow()
RLClockTick ==
    /\ rl_now < MaxRLCTime
    /\ rl_now' = rl_now + 1
    /\ rl_last' = NoCall
    /\ UNCHANGED <<rl_max, rl_window, rl_requests, rl_hist>>
    /\ UNCHANGED rlwVars
    /\ UNCHANGED nonRlRlwVars

(***************************************************************************)
(* The device calls made inside one "with self._lock:"                     *)
(***************************************************************************)
DeviceCall(name, caught) == [call |-> name, caught |-> caught]

\* process_command: the read of the old value for the audit log; what it
\* raises is caught ("except Exception: old_value = 'unknown'")
AuditPreRead(cmd) ==
    IF audit_on /\ cmd \in WRITE_COMMANDS
    THEN IF cmd = "set_setpoint"
         THEN <<DeviceCall("get_setpoint", TRUE)>>
         ELSE <<DeviceCall("is_running", TRUE)>>
    ELSE <<>>

\* dispatch_command: the chiller methods called for a command, in order
DispatchCalls(cmd) ==
    IF cmd = "set_setpoint"
    THEN <<DeviceCall("set_setpoint", FALSE), DeviceCall("get_setpoint", FALSE)>>
    ELSE IF cmd = "status_all"
    THEN <<DeviceCall("get_status", FALSE), DeviceCall("get_temperature", FALSE),
           DeviceCall("get_setpoint", FALSE), DeviceCall("is_running", FALSE)>>
    ELSE IF cmd = "start" THEN <<DeviceCall("start", FALSE)>>
    ELSE <<DeviceCall("get_status", FALSE)>>

LockedCommands == {"set_setpoint", "status_all", "start", "status"}
WatchdogHolds == {"check", "close", "reconnect"}

\* the operations a worker runs under the lock
OperationsOf(w) ==
    IF w \in Clients THEN LockedCommands
    ELSE IF w = Watchdog THEN WatchdogHolds
    ELSE {"apply"}

\* the device calls of one "with self._lock:" block of worker w
CallsOf(w, op) ==
    IF w \in Clients THEN AuditPreRead(op) \o DispatchCalls(op)
    ELSE IF w = Watchdog
    THEN IF op = "check" THEN <<DeviceCall("get_status", FALSE)>>
         ELSE IF op = "close" THEN <<DeviceCall("close", FALSE)>>
         ELSE <<DeviceCall("connect", FALSE), DeviceCall("identify", FALSE)>>
    ELSE <<DeviceCall("set_setpoint", FALSE)>>

DcAtRest ==
    /\ dc_pc = [w \in Workers |-> "idle"]
    /\ dc_todo = [w \in Workers |-> <<>>]
    /\ dc_count = [w \in Workers |-> 0]
    /\ dc_last = "none"

DcFrame ==
    /\ UNCHANGED <<confVars, serial_connected, serial_open, clientVars,
                   wdVars, schedVars, out, wd_log>>
    /\ UNCHANGED auVars
    /\ UNCHANGED connVars
    /\ UNCHANGED nonGwAuDcVars

\* a lock that is given up after every device call
HoldEndsAfterEachCall(todo) == TRUE

\* the "with self._lock:" block is left when its last statement has run or
\* an exception leaves it
HoldEnds(todo) == todo = <<>>

\* a worker reaches "with self._lock:" with an operation to run
DcStart(w, op) ==
    /\ dc_pc[w] = "idle"
    /\ dc_pc' = [dc_pc EXCEPT ![w] = "lockwait"]
    /\ dc_todo' = [dc_todo EXCEPT ![w] = CallsOf(w, op)]
    /\ dc_count' = [dc_count EXCEPT ![w] = 0]
    /\ UNCHANGED <<dc_last, lock>>
    /\ DcFrame

\* "with self._lock:" entered
DcAcquire(w) ==
    /\ dc_pc[w] = "lockwait"
    /\ lock = NoHolder
    /\ lock' = w
    /\ dc_pc' = [dc_pc EXCEPT ![w] = "locked"]
    /\ UNCHANGED <<dc_todo, dc_count, dc_last>>
    /\ DcFrame

\* the next device call of the block returns or raises; an exception that
\* is not caught inside the block ends it
DcDeviceCall(w, outcome) ==
    /\ dc_pc[w] = "locked"
    /\ dc_todo[w] # <<>>
    /\ LET rest == IF outcome = "ok" \/ Head(dc_todo[w]).caught
                   THEN Tail(dc_todo[w]) ELSE <<>>
       IN  /\ dc_todo' = [dc_todo EXCEPT ![w] = rest]
           /\ IF HoldEnds(rest)
              THEN /\ lock' = NoHolder
                   /\ dc_pc' = [dc_pc EXCEPT ![w] =
                                  IF rest = <<>> THEN "idle" ELSE "lockwait"]
              ELSE UNCHANGED <<lock, dc_pc>>
    /\ dc_count' = [dc_count EXCEPT ![w] = @ + 1]
    /\ dc_last' = w
    /\ DcFrame

(***************************************************************************)
(* The locks of the server: JulaboTCPServer._lock, _schedule_lock and      *)
(* _conn_lock, and _RateLimiter._lock                                      *)
(***************************************************************************)
Locks == {"_lock", "_schedule_lock", "_conn_lock", "limiter"}
MainThread == "main"
LkWorkers == Workers \cup {MainThread}

Acq(l) == [op |-> "acquire", lock |-> l]
Rel(l) == [op |-> "release", lock |-> l]
Call == [op |-> "device call", lock |-> "none"]

\* increment_connections / decrement_connections
CountConnection == <<Acq("_conn_lock"), Rel("_conn_lock")>>
\* _RateLimiter.allow
AllowUnderLock == <<Acq("limiter"), Rel("limiter")>>
\* process_command of a command that calls the device
DeviceCommand == <<Acq("_lock"), Call, Rel("_lock")>>
\* process_command of load_schedule, stop_schedule or schedule_status:
\* _schedule_lock is taken inside "with self._lock:"
ScheduleCommand ==
    <<Acq("_lock"), Acq("_schedule_lock"), Rel("_schedule_lock"),
      Rel("_lock")>>

\* what a connection handler does, one block after the other: register or
\* unregister, allow(), process_command
ClientPaths ==
    {CountConnection, AllowUnderLock, DeviceCommand, ScheduleCommand}

\* _schedule_ticker, "with self._schedule_lock:" at the top of the loop and
\* in the clean-up
ReadRegistry == <<Acq("_schedule_lock"), Rel("_schedule_lock")>>
\* _schedule_apply_setpoint
ApplySetpoint == <<Acq("_lock"), Call, Rel("_lock")>>

\* a ticker that called tick(), and so the apply callback, inside
\* "with self._schedule_lock:"
TickerPathsApplyUnderScheduleLock ==
    {<<Acq("_schedule_lock")>> \o ApplySetpoint \o <<Rel("_schedule_lock")>>}

\* one round of the ticker's loop: the look-up alone (the runner is gone or
\* tick() applies nothing), the look-up and a tick that applies, and the
\* same followed by the clean-up
TickerPaths ==
    {ReadRegistry, ReadRegistry \o ApplySetpoint,
     ReadRegistry \o ApplySetpoint \o ReadRegistry}

\* _SerialWatchdog: every device call is made in a block of its own
WatchdogPaths == {<<Acq("_lock"), Call, Rel("_lock")>>}

\* reload_config, run on the main thread: the settings are assigned inside
\* "with self._lock:"
ReloadPaths == {<<Acq("_lock"), Rel("_lock")>>}

PathsOf(w) ==
    IF w \in Clients THEN ClientPaths
    ELSE IF w \in Tickers THEN TickerPaths
    ELSE IF w = Watchdog THEN WatchdogPaths
    ELSE ReloadPaths

\* the locks a worker's paths take
LocksOf(w) ==
    {l \in Locks : \E path \in PathsOf(w) :
                     \E i \in 1..Len(path) : path[i] = Acq(l)}

LkAtRest ==
    /\ lk_holder = [l \in Locks |-> NoHolder]
    /\ lk_script = [w \in LkWorkers |-> <<>>]

\* the worker is blocked in, or about to enter, "with <lock l>:"
WaitingFor(w, l) == lk_script[w] # <<>> /\ Head(lk_script[w]) = Acq(l)

LkBegin(w, path) ==
    /\ lk_script[w] = <<>>
    /\ lk_script' = [lk_script EXCEPT ![w] = path]
    /\ UNCHANGED lk_holder
    /\ UNCHANGED nonLkVars

\* threading.Lock.acquire: blocks while the lock is held, by whomever
LkAcquire(w) ==
    /\ \E l \in Locks :
         /\ WaitingFor(w, l)
         /\ lk_holder[l] = NoHolder
         /\ lk_holder' = [lk_holder EXCEPT ![l] = w]
    /\ lk_script' = [lk_script EXCEPT ![w] = Tail(@)]
    /\ UNCHANGED nonLkVars

\* the end of a with block
LkRelease(w) ==
    /\ lk_script[w] # <<>>
    /\ Head(lk_script[w]).op = "release"
    /\ lk_holder' = [lk_holder EXCEPT ![Head(lk_script[w]).lock] = NoHolder]
    /\ lk_script' = [lk_script EXCEPT ![w] = Tail(@)]
    /\ UNCHANGED nonLkVars

\* a device call made inside a with block returns (or raises)
LkDeviceCall(w) ==
    /\ lk_script[w] # <<>>
    /\ Head(lk_script[w]) = Call
    /\ lk_script' = [lk_script EXCEPT ![w] = Tail(@)]
    /\ UNCHANGED lk_holder
    /\ UNCHANGED nonLkVars

(***************************************************************************)
(* JulaboRequestHandler.handle and _handle_loop, begin_shutdown            *)
(***************************************************************************)
MaxConnTime == 2

\* the address a client connects from: all clients are on one host
ClientIP(c) == "ip1"

\* what rfile.readline() gives the handler: the end of the stream, a socket
\* timeout or failure, a line longer than MAX_MESSAGE_SIZE, a blank line, or
\* a request: text that is no JSON, JSON that is no object, or an object
Line(k, cmd, tok, ch) ==
    [kind |-> k, command |-> cmd, token |-> tok, chiller |-> ch]
EndOfConnection == {"eof", "timeout", "oserror"}
PlainLines == {Line(k, NoCommand, NoToken, NoChiller) :
                 k \in EndOfConnection
                         \cup {"oversized", "blank", "malformed", "nonobject"}}

\* a step of a handler outside process_command
GwQuiet ==
    /\ out' = NoEvent
    /\ wd_log' = "none"
    /\ UNCHANGED <<confVars, serial_connected, lock, serial_open, clientVars,
                   wdVars, schedVars>>

\* Accept with an increment_connections that does not look at the flag
AcceptIgnoringShutdown(c) ==
    /\ hstate[c] = "none"
    /\ hend' = NoEnd
    /\ hstate' = [hstate EXCEPT ![c] = "reading"]
    /\ active_connections' = active_connections + 1
    /\ sent' = NoResponse
    /\ UNCHANGED <<hline, rbuf, shutting_down>>
    /\ GwQuiet
    /\ UNCHANGED nonGwVars

\* handle(): increment_connections(), and return at once if it refuses
Accept(c) ==
    /\ hstate[c] = "none"
    /\ IF shutting_down
       THEN /\ hend' = [client |-> c, reason |-> "rejected"]
            /\ UNCHANGED <<hstate, active_connections>>
       ELSE /\ hend' = NoEnd
            /\ hstate' = [hstate EXCEPT ![c] = "reading"]
            /\ active_connections' = active_connections + 1
    /\ sent' = NoResponse
    /\ UNCHANGED <<hline, rbuf, shutting_down>>
    /\ GwQuiet
    /\ UNCHANGED nonGwVars

\* begin_shutdown
BeginShutdown ==
    /\ shutting_down' = TRUE
    /\ sent' = NoResponse
    /\ hend' = NoEnd
    /\ UNCHANGED <<hstate, hline, rbuf, active_connections>>
    /\ GwQuiet
    /\ UNCHANGED nonGwVars

\* Admitted without the limiter being asked
AdmittedAlways(ip) == TRUE

\* the limiter's answer to a request line: the server has no limiter when
\* it was built with rate_limit = 0
Admitted(ip) ==
    rl_max = 0 \/ Allowed(rl_requests, ip, rl_now, rl_window, rl_max)

\* what readline(MAX_MESSAGE_SIZE + 1) leaves unread of a line longer than
\* the cap: nothing (the line was one byte over), or the rest of the line,
\* which the next readline() returns
OversizedRests ==
    {NoLine, Line("malformed", NoCommand, NoToken, NoChiller),
     Line("object", "set_setpoint", "secret", NoChiller)}

\* _handle_loop from readline() to the rate limit check; l is the line the
\* client sent next, read unless rfile still holds the rest of a line
ReadLine(c, l) ==
    /\ hstate[c] = "reading"
    /\ LET raw == IF rbuf[c] = NoLine THEN l ELSE rbuf[c] IN
       IF raw.kind \in EndOfConnection
       THEN /\ hstate' = [hstate EXCEPT ![c] = "none"]
            /\ active_connections' = active_connections - 1
            /\ hend' = [client |-> c, reason |-> raw.kind]
            /\ sent' = NoResponse
            /\ UNCHANGED <<hline, rbuf, rlVars>>
       ELSE IF raw.kind = "oversized"
       THEN /\ sent' = Response(c, NoCommand, "too_large_error", "none")
            /\ hend' = NoEnd
            /\ \E rest \in OversizedRests :
                  rbuf' = [rbuf EXCEPT ![c] = rest]
            /\ UNCHANGED <<hstate, hline, active_connections, rlVars>>
       ELSE IF raw.kind = "blank"
       THEN /\ sent' = NoResponse
            /\ hend' = NoEnd
            /\ rbuf' = [rbuf EXCEPT ![c] = NoLine]
            /\ UNCHANGED <<hstate, hline, active_connections, rlVars>>
       ELSE /\ IF rl_max > 0 THEN AllowCall(ClientIP(c))
                             ELSE UNCHANGED rlVars
            /\ hend' = NoEnd
            /\ rbuf' = [rbuf EXCEPT ![c] = NoLine]
            /\ UNCHANGED active_connections
            /\ IF Admitted(ClientIP(c))
               THEN /\ hstate' = [hstate EXCEPT ![c] = "admitted"]
                    /\ hline' = [hline EXCEPT ![c] = raw]
                    /\ sent' = NoResponse
               ELSE /\ sent' = Response(c, raw.command, "rate_limit_error",
                                        "none")
                    /\ UNCHANGED <<hstate, hline>>
    /\ UNCHANGED shutting_down
    /\ GwQuiet
    /\ UNCHANGED nonGwRlVars

\* json.loads() and the call of process_command up to its first checks
HandleMessage(c) ==
    /\ hstate[c] = "admitted"
    /\ cpc[c] = "idle"
    /\ IF hline[c].kind = "object"
       THEN Request(c, hline[c].command, hline[c].token)
       ELSE /\ HandlerGets(c, NoCommand,
                           IF hline[c].kind = "malformed"
                           THEN "JSONDecodeError" ELSE "AttributeError",
                           "none")
            /\ GwQuiet
            /\ UNCHANGED nonGwVars

\* the monotonic clock of the server's limiter advances
ConnTick ==
    /\ rl_now < MaxConnTime
    /\ rl_now' = rl_now + 1
    /\ rl_last' = NoCall
    /\ UNCHANGED <<rl_max, rl_window, rl_requests, rl_hist>>
    /\ NoHandlerStep
    /\ GwQuiet
    /\ UNCHANGED nonGwRlVars

(***************************************************************************)
(* JulaboTCPServer.reload_config                                           *)
(***************************************************************************)
DEFAULT_RATE_WINDOW == 60

\* server_cfg.get(key) of a key the [server] section does not have
NoKey == "no key"

\* a configuration load_config raises for: no section is read from it
Unloadable ==
    [loads |-> FALSE, host |-> NoKey, port |-> NoKey, serial_port |-> NoKey,
     rate_limit |-> NoKey, read_only |-> NoKey, idle_timeout |-> NoKey]

\* the configurations a reload finds: one that cannot be loaded, or a
\* [server] section with any of the six keys (a missing file loads as a
\* section without keys); the values are the strings configparser returns
Configs ==
    {Unloadable} \cup
    [loads : {TRUE},
     host : {NoKey, "0.0.0.0"}, port : {NoKey, "9999"},
     serial_port : {NoKey, "/dev/ttyUSB1"},
     rate_limit : {NoKey, "0", "2", "abc"},
     read_only : {NoKey, "true", "Yes", "off"},
     idle_timeout : {NoKey, "300", "x"}]

NoReload == [op |-> "none", config |-> Unloadable,
             warnings |-> {}, raised |-> "none"]

CfgAtRest ==
    /\ idle_timeout = 0
    /\ server_address = <<"127.0.0.1", 8765>>
    /\ serial_port = "/dev/ttyUSB0"
    /\ cfg_call = NoReload

\* str.lower()
Lower(str) == IF str = "Yes" THEN "yes" ELSE str

\* int(raw) and float(raw): the number, or the ValueError
NumberOf(raw) ==
    IF raw = "0" THEN [ok |-> TRUE, n |-> 0]
    ELSE IF raw = "2" THEN [ok |-> TRUE, n |-> 2]
    ELSE IF raw = "300" THEN [ok |-> TRUE, n |-> 300]
    ELSE [ok |-> FALSE, n |-> 0]

\* Present for a reload that does not test "is not None"
PresentAlways(cfg, key) == TRUE

\* "raw = server_cfg.get(key); if raw is not None"
Present(cfg, key) == cfg[key] # NoKey

\* reload_config(path): a configuration that does not load changes nothing;
\* otherwise a warning is logged for each immutable key, and under the lock
\* rate_limit (a new limiter, or none), read_only and idle_timeout are
\* applied in this order, each if its key is present; int() or float()
\* raising ends the reload at that key
ReloadConfigFile(cfg) ==
    /\ lock = NoHolder
    /\ LET rate == NumberOf(cfg.rate_limit)
           idle == NumberOf(cfg.idle_timeout)
           rateFails == cfg.loads /\ Present(cfg, "rate_limit") /\ ~rate.ok
           idleFails == /\ cfg.loads /\ ~rateFails
                        /\ Present(cfg, "idle_timeout") /\ ~idle.ok
       IN  /\ IF cfg.loads /\ Present(cfg, "rate_limit") /\ rate.ok
              THEN /\ rl_max' = IF rate.n > 0 THEN rate.n ELSE 0
                   /\ rl_window' = DEFAULT_RATE_WINDOW
                   /\ rl_requests' = << >>
                   /\ rl_hist' = [k \in RLKeys |-> <<>>]
              ELSE UNCHANGED <<rl_max, rl_window, rl_requests, rl_hist>>
           /\ IF cfg.loads /\ ~rateFails /\ Present(cfg, "read_only")
              THEN read_only' =
                     (Lower(cfg.read_only) \in {"1", "true", "yes"})
              ELSE UNCHANGED read_only
           /\ IF cfg.loads /\ ~rateFails /\ Present(cfg, "idle_timeout")
                 /\ idle.ok
              THEN idle_timeout' = idle.n
              ELSE UNCHANGED idle_timeout
           /\ cfg_call' =
                [op |-> "reload_config", config |-> cfg,
                 warnings |-> IF cfg.loads
                              THEN {k \in {"host", "port", "serial_port"} :
                                      cfg[k] # NoKey}
                              ELSE {},
                 raised |-> IF rateFails \/ idleFails THEN "ValueError"
                            ELSE "none"]
    /\ rl_last' = NoCall
    /\ out' = NoEvent
    /\ wd_log' = "none"
    /\ UNCHANGED <<auth_token, serial_connected, lock, serial_open,
                   clientVars, wdVars, schedVars, rl_now, server_address,
                   serial_port>>
    /\ UNCHANGED nonGwRlCfgVars
    /\ NoHandlerStep

(***************************************************************************)
(* ScheduleRunner (schedule.py)                                            *)
(***************************************************************************)
\* ScheduleRunner's default tolerance, 0.05 degrees
RunnerTolerance == 5
MaxSrTime == 7

NoStart == -1
NoSetpoint == -100000
Step(m, t) == [elapsed_minutes |-> m, temperature |-> t]

\* the schedules a runner is built with: one step; a slow ramp (0.04 degrees
\* a minute); a hold, a fast ramp (3 degrees a minute) and a plateau
Schedules == { <<Step(0, 1000)>>,
               <<Step(0, 2000), Step(4, 2016)>>,
               <<Step(1, 2000), Step(3, 2600), Step(5, 2600)>> }

NoRunnerCall == [op |-> "none", running |-> FALSE, elapsed |-> 0,
                 target |-> NoSetpoint, applied |-> FALSE, raised |-> FALSE,
                 ret |-> NoSetpoint, last_before |-> NoSetpoint]

InitSR ==
    /\ sr_sched \in Schedules
    /\ sr_start = NoStart
    /\ sr_last = NoSetpoint
    /\ sr_finished = FALSE
    /\ sr_now = 0
    /\ sr_call = NoRunnerCall

\* SetpointAt that holds the earlier step's temperature between two steps
SetpointAtHeld(steps, e) ==
    LET n == Len(steps) IN
    IF e <= steps[1].elapsed_minutes THEN steps[1].temperature
    ELSE IF e >= steps[n].elapsed_minutes THEN steps[n].temperature
    ELSE LET i == CHOOSE k \in 1..(n - 1) :
                    /\ steps[k].elapsed_minutes <= e
                    /\ e <= steps[k + 1].elapsed_minutes
                    /\ \A j \in 1..(k - 1) :
                          ~(steps[j].elapsed_minutes <= e
                              /\ e <= steps[j + 1].elapsed_minutes)
         IN  steps[i].temperature

\* SetpointSchedule.setpoint_at
SetpointAt(steps, e) ==
    LET n == Len(steps) IN
    IF e <= steps[1].elapsed_minutes THEN steps[1].temperature
    ELSE IF e >= steps[n].elapsed_minutes THEN steps[n].temperature
    ELSE LET i == CHOOSE k \in 1..(n - 1) :
                    /\ steps[k].elapsed_minutes <= e
                    /\ e <= steps[k + 1].elapsed_minutes
                    /\ \A j \in 1..(k - 1) :
                          ~(steps[j].elapsed_minutes <= e
                              /\ e <= steps[j + 1].elapsed_minutes)
             a == steps[i]
             b == steps[i + 1]
             span == b.elapsed_minutes - a.elapsed_minutes
         IN  IF span = 0 THEN b.temperature
             ELSE a.temperature
                    + ((e - a.elapsed_minutes)
                         * (b.temperature - a.temperature)) \div span

\* ScheduleRunner.is_running
IsRunning == sr_start # NoStart /\ ~sr_finished

\* ScheduleRunner.elapsed_minutes
ElapsedMinutes == IF sr_start = NoStart THEN 0 ELSE sr_now - sr_start

\* NeedsApply that ignores the tolerance
NeedsApplyAlways(target, last) == TRUE

\* "self._last_setpoint is None or abs(target - last) > self._tolerance"
NeedsApply(target, last) ==
    last = NoSetpoint \/ Abs(target - last) > RunnerTolerance

\* IsFinalTick that never sees the end of the schedule
IsFinalTickNever(steps, e) == FALSE

\* "elapsed >= self.schedule.steps[-1].elapsed_minutes"
IsFinalTick(steps, e) == e >= steps[Len(steps)].elapsed_minutes

\* ScheduleRunner.start
SrStart ==
    /\ sr_start' = sr_now
    /\ sr_finished' = FALSE
    /\ sr_last' = NoSetpoint
    /\ sr_call' = [NoRunnerCall EXCEPT !.op = "start", !.running = IsRunning,
                                       !.last_before = sr_last]
    /\ UNCHANGED <<sr_sched, sr_now>>
    /\ UNCHANGED nonSrVars

\* ScheduleRunner.stop
SrStop ==
    /\ sr_finished' = TRUE
    /\ sr_call' = [NoRunnerCall EXCEPT !.op = "stop", !.running = IsRunning,
                                       !.last_before = sr_last]
    /\ UNCHANGED <<sr_sched, sr_start, sr_last, sr_now>>
    /\ UNCHANGED nonSrVars

\* ScheduleRunner.tick; returns says whether the apply callback, if it is
\* invoked, returns or raises
SrTick(returns) ==
    /\ IF ~IsRunning
       THEN /\ sr_call' = [NoRunnerCall EXCEPT !.op = "tick",
                                               !.last_before = sr_last]
            /\ UNCHANGED <<sr_last, sr_finished>>
       ELSE LET elapsed == ElapsedMinutes
                target == SetpointAt(sr_sched, elapsed)
                final == IsFinalTick(sr_sched, elapsed)
                apply == NeedsApply(target, sr_last)
                raised == apply /\ ~returns
            IN  /\ sr_last' = IF apply /\ ~raised THEN target ELSE sr_last
                /\ sr_finished' = IF final /\ ~raised THEN TRUE
                                  ELSE sr_finished
                /\ sr_call' = [op |-> "tick", running |-> TRUE,
                               elapsed |-> elapsed, target |-> target,
                               applied |-> apply, raised |-> raised,
                               ret |-> IF raised THEN NoSetpoint ELSE target,
                               last_before |-> sr_last]
    /\ UNCHANGED <<sr_sched, sr_start, sr_now>>
    /\ UNCHANGED nonSrVars

\* the schedules and times setpoint_at is evaluated on: up to three steps
\* at strictly increasing minutes, temperatures -6, 12 and 24 degrees (the
\* temperatures are multiples of 0.12 degrees, so that every interpolated
\* value is a whole number of hundredths), and the ramp from 20 to 30
\* degrees in 10 minutes
MaxEvalTime == 11
InterpSteps == {Step(m, t) : m \in {0, 2, 3, 6}, t \in {-600, 1200, 2400}}
InterpSchedules ==
    {st \in UNION {[1..n -> InterpSteps] : n \in 1..3} :
        \A i \in 1..(Len(st) - 1) :
            st[i].elapsed_minutes < st[i + 1].elapsed_minutes}
      \cup { <<Step(0, 2000), Step(10, 3000)>> }

\* a call of schedule.setpoint_at(e)
SetpointAtCall(e) ==
    /\ sr_call' = [NoRunnerCall EXCEPT !.op = "setpoint_at", !.elapsed = e,
                                       !.target = SetpointAt(sr_sched, e),
                                       !.ret = SetpointAt(sr_sched, e)]
    /\ UNCHANGED <<sr_sched, sr_start, sr_last, sr_finished, sr_now>>
    /\ UNCHANGED nonSrVars

\* a minute passes
SrAdvance ==
    /\ sr_now < MaxSrTime
    /\ sr_now' = sr_now + 1
    /\ sr_call' = NoRunnerCall
    /\ UNCHANGED <<sr_sched, sr_start, sr_last, sr_finished>>
    /\ UNCHANGED nonSrVars

(***************************************************************************)
(* dispatch_command (dispatch.py) on a FakeChillerBackend (simulator.py)   *)
(***************************************************************************)
\* message.get("value"): absent, a boolean, a number (in hundredths), a
\* string or a list
Value(t, n, str) == [t |-> t, n |-> n, s |-> str]
NoValue == Value("none", 0, "")
ValueStrings == {"on", " OFF ", "1", "25.5", "maybe", "yes"}
Values == {NoValue, Value("list", 0, "")}
            \cup {Value("bool", b, "") : b \in {0, 1}}
            \cup {Value("num", n, "") : n \in {0, 100, 2500, 30000}}
            \cup {Value("str", 0, x) : x \in ValueStrings}

\* value.strip().lower()
StripLower(x) == IF x = " OFF " THEN "off" ELSE x

\* float(x) for a string: the number in hundredths, or NoSetpoint where
\* float() raises ValueError
FloatOfString(x) ==
    IF x = "1" THEN 100 ELSE IF x = "25.5" THEN 2550 ELSE NoSetpoint

\* NormalizeBoolean that takes every string it does not know for False
NormalizeBooleanLenient(v) ==
    IF v.t = "bool" THEN (IF v.n = 1 THEN "true" ELSE "false")
    ELSE IF v.t = "num" THEN (IF v.n # 0 THEN "true" ELSE "false")
    ELSE IF v.t = "str"
         THEN IF StripLower(v.s) \in {"1", "true", "on", "start", "run"}
              THEN "true" ELSE "false"
    ELSE "ValueError"

\* _normalize_boolean: "true", "false" or "ValueError"
NormalizeBoolean(v) ==
    IF v.t = "bool" THEN (IF v.n = 1 THEN "true" ELSE "false")
    ELSE IF v.t = "num" THEN (IF v.n # 0 THEN "true" ELSE "false")
    ELSE IF v.t = "str"
         THEN IF StripLower(v.s) \in {"1", "true", "on", "start", "run"}
              THEN "true"
              ELSE IF StripLower(v.s) \in {"0", "false", "off", "stop", "halt"}
                   THEN "false"
                   ELSE "ValueError"
    ELSE "ValueError"

\* float(value) in set_setpoint's branch: <<"ok", hundredths>> or the error
FloatOf(v) ==
    IF v.t = "bool" THEN <<"ok", v.n * 100>>
    ELSE IF v.t = "num" THEN <<"ok", v.n>>
    ELSE IF v.t = "str"
         THEN IF FloatOfString(v.s) = NoSetpoint THEN <<"ValueError", 0>>
              ELSE <<"ok", FloatOfString(v.s)>>
    ELSE <<"TypeError", 0>>

\* how a dispatch_command call ends: the result, the chiller methods it
\* called, and the chiller's state after it
Ended(res, calls, sp, run) ==
    [result |-> res, calls |-> calls, setpoint |-> sp, running |-> run]

\* dispatch_command(chiller, command, message) with the chiller in state
\* (sp, run)
DispatchCommand(command, v, sp, run) ==
    IF command \in {"identify", "status", "get_setpoint", "temperature",
                    "is_running"}
    THEN Ended("ok", <<command>>, sp, run)
    ELSE IF command = "set_setpoint"
    THEN IF v.t = "none" THEN Ended("ValueError", <<>>, sp, run)
         ELSE IF FloatOf(v)[1] # "ok" THEN Ended(FloatOf(v)[1], <<>>, sp, run)
         ELSE IF ~InRange(FloatOf(v)[2])
              THEN Ended("ValueError", <<"set_setpoint">>, sp, run)
              ELSE Ended("ok", <<"set_setpoint", "get_setpoint">>,
                         FloatOf(v)[2], run)
    ELSE IF command = "start" THEN Ended("ok", <<"start">>, sp, TRUE)
    ELSE IF command = "stop" THEN Ended("ok", <<"stop">>, sp, FALSE)
    ELSE IF command = "set_running"
    THEN IF v.t = "none" THEN Ended("ValueError", <<>>, sp, run)
         ELSE IF NormalizeBoolean(v) = "ValueError"
              THEN Ended("ValueError", <<>>, sp, run)
              ELSE Ended("ok", <<"set_running">>, sp,
                         NormalizeBoolean(v) = "true")
    ELSE IF command = "status_all"
    THEN Ended("ok", <<"status", "temperature", "get_setpoint",
                       "is_running">>, sp, run)
    ELSE IF command = "ping" THEN Ended("ok", <<>>, sp, run)
    ELSE Ended("ValueError", <<>>, sp, run)

NoDispatchCall == [command |-> NoCommand, value |-> NoValue,
                   result |-> "none", calls |-> <<>>,
                   setpoint_before |-> 0, running_before |-> FALSE]

\* FakeChillerState's defaults: setpoint 20.0, not running
InitDsp ==
    /\ dsp_setpoint = 2000
    /\ dsp_running = FALSE
    /\ dsp_call = NoDispatchCall

\* one call of dispatch_command
Dispatch(command, v) ==
    /\ LET e == DispatchCommand(command, v, dsp_setpoint, dsp_running) IN
       /\ dsp_setpoint' = e.setpoint
       /\ dsp_running' = e.running
       /\ dsp_call' = [command |-> command, value |-> v,
                       result |-> e.result, calls |-> e.calls,
                       setpoint_before |-> dsp_setpoint,
                       running_before |-> dsp_running]
    /\ UNCHANGED nonDspVars

(***************************************************************************)
(* Audit trail: the body of process_command that runs with the lock held   *)
(***************************************************************************)
MaxAuditRecords == 1

\* old_value: None, "unknown", str(get_setpoint()) or str(is_running())
OldNone == [kind |-> "none", n |-> 0]
OldUnknown == [kind |-> "unknown", n |-> 0]
OldSetpoint(sp) == [kind |-> "setpoint", n |-> sp]
OldRunning(run) == [kind |-> "running", n |-> IF run THEN 1 ELSE 0]

NoAuditedCall == [command |-> NoCommand, pre_read |-> "none",
                  pre_failed |-> FALSE, old_value |-> OldNone,
                  result |-> "none", calls |-> <<>>, records |-> 0]

AuditAtRest ==
    /\ audit_on = FALSE
    /\ audit_log = <<>>
    /\ au_call = NoAuditedCall

\* the values sent with the commands: none, booleans, an admissible and an
\* inadmissible setpoint, and a string that is no boolean
AuditValues == {NoValue, Value("bool", 0, ""), Value("bool", 1, ""),
                Value("num", 2500, ""), Value("num", 30000, ""),
                Value("str", 0, "maybe")}

\* the commands that reach the locked body and go to dispatch_command
AuditedCommands == (READ_COMMANDS \cup WRITE_COMMANDS \cup {"bogus"})

\* the chiller method the capture of the old value calls
PreRead(command) ==
    IF command = "set_setpoint" THEN "get_setpoint" ELSE "is_running"

\* OldValue for a capture that lets a failed read leave old_value at None
OldValueNone(command, preFails, sp, run) ==
    IF preFails THEN OldNone
    ELSE IF command = "set_setpoint" THEN OldSetpoint(sp)
    ELSE OldRunning(run)

\* the capture of the old value for a write command: the value read, or
\* "unknown" when the read raised
OldValue(command, preFails, sp, run) ==
    IF preFails THEN OldUnknown
    ELSE IF command = "set_setpoint" THEN OldSetpoint(sp)
    ELSE OldRunning(run)

\* _audit: the record written for a write command; start and stop are
\* logged by their name only
AuditRecord(command, sp, run, old) ==
    IF command = "set_setpoint"
    THEN [command |-> command, result |-> OldSetpoint(sp), was |-> old]
    ELSE IF command \in {"start", "stop"}
    THEN [command |-> command, result |-> OldNone, was |-> OldNone]
    ELSE [command |-> command, result |-> OldRunning(run), was |-> old]

\* process_command's locked body for a command that goes to
\* dispatch_command: the capture of the old value (whose read of the device
\* fails or not), the dispatch (in which the device fails or not), and the
\* audit record after a dispatch that returned
AuditedCommand(command, v, preFails, devFails) ==
    /\ lock = NoHolder
    /\ Len(audit_log) < MaxAuditRecords
    /\ LET write == audit_on /\ command \in WRITE_COMMANDS
           old == IF write
                  THEN OldValue(command, preFails, dsp_setpoint, dsp_running)
                  ELSE OldNone
           d == DispatchCommand(command, v, dsp_setpoint, dsp_running)
           e == IF devFails /\ d.calls # <<>>
                THEN Ended("JulaboError", <<d.calls[1]>>, dsp_setpoint,
                           dsp_running)
                ELSE d
           logged == write /\ e.result = "ok"
       IN  /\ dsp_setpoint' = e.setpoint
           /\ dsp_running' = e.running
           /\ dsp_call' = [command |-> command, value |-> v,
                           result |-> e.result, calls |-> e.calls,
                           setpoint_before |-> dsp_setpoint,
                           running_before |-> dsp_running]
           /\ audit_log' =
                IF logged
                THEN Append(audit_log,
                            AuditRecord(command, e.setpoint, e.running, old))
                ELSE audit_log
           /\ au_call' = [command |-> command,
                          pre_read |-> IF write THEN PreRead(command)
                                       ELSE "none",
                          pre_failed |-> write /\ preFails,
                          old_value |-> old,
                          result |-> e.result, calls |-> e.calls,
                          records |-> IF logged THEN 1 ELSE 0]
    /\ UNCHANGED audit_on
    /\ UNCHANGED nonDspAuVars

(***************************************************************************)
(* SetpointSchedule._parse_csv (schedule.py)                               *)
(***************************************************************************)
MaxCsvRows == 3

\* a float: a number (minutes, or hundredths of a degree) or NaN
Float(n) == [nan |-> FALSE, n |-> n]
NaN == [nan |-> TRUE, n |-> 0]

\* a < b, a == b and a <= b of floats: every comparison with NaN is False
FloatLt(a, b) == ~a.nan /\ ~b.nan /\ a.n < b.n
FloatEq(a, b) == ~a.nan /\ ~b.nan /\ a.n = b.n
FloatLe(a, b) == ~a.nan /\ ~b.nan /\ a.n <= b.n

\* a cell of a row: text that float() turns into a number or into NaN
\* ("nan"), or text float() raises ValueError for
Cell(t, n) == [t |-> t, n |-> n]
MinuteCells == {Cell("num", 0), Cell("num", 1), Cell("num", 5),
                Cell("nan", 0), Cell("text", 0)}
TempCells == {Cell("num", 2000), Cell("num", SETPOINT_MIN),
              Cell("num", SETPOINT_MAX + 1), Cell("nan", 0),
              Cell("text", 0)}

\* a row of the reader: fewer than two cells (a blank line), or two cells
ShortRow == <<>>
CsvRows == {ShortRow} \cup {<<m, t>> : m \in MinuteCells, t \in TempCells}
CsvTexts == UNION {[1..n -> CsvRows] : n \in 0..MaxCsvRows}

\* float(cell) where it returns
FloatOfCell(c) == IF c.t = "nan" THEN NaN ELSE Float(c.n)

Parsed(ok, steps) == [op |-> "parse_csv", ok |-> ok, steps |-> steps]
NoParse == [op |-> "none", ok |-> FALSE, steps |-> <<>>]

CsvAtRest == csv_in = <<>> /\ csv_out = NoParse

\* the loop over the rows from row i (counted from 0 as enumerate does):
\* the steps collected, or ok = FALSE for the ValueError
RECURSIVE ReadRows(_, _, _)
ReadRows(rows, i, steps) ==
    IF i >= Len(rows) THEN Parsed(TRUE, steps)
    ELSE LET row == rows[i + 1] IN
         IF Len(row) < 2 THEN ReadRows(rows, i + 1, steps)
         ELSE IF row[1].t = "text" \/ row[2].t = "text"
         THEN (IF i = 0 THEN ReadRows(rows, i + 1, steps)
               ELSE Parsed(FALSE, <<>>))
         ELSE IF ~(/\ FloatLe(Float(SETPOINT_MIN), FloatOfCell(row[2]))
                   /\ FloatLe(FloatOfCell(row[2]), Float(SETPOINT_MAX)))
         THEN Parsed(FALSE, <<>>)
         ELSE ReadRows(rows, i + 1,
                       Append(steps, Step(FloatOfCell(row[1]),
                                          FloatOfCell(row[2]))))

\* list.sort(key = elapsed_minutes) of a short list, as CPython runs it:
\* the initial run is found with "<" (and reversed when it descends), the
\* other elements are placed by binary insertion with "<"
KeyLt(a, b) == FloatLt(a.elapsed_minutes, b.elapsed_minutes)

RECURSIVE RunEnd(_, _, _)
RunEnd(s, k, desc) ==
    IF k < Len(s) /\ (KeyLt(s[k + 1], s[k]) <=> desc)
    THEN RunEnd(s, k + 1, desc)
    ELSE k

Reversed(s) == [i \in 1..Len(s) |-> s[Len(s) + 1 - i]]

RECURSIVE InsertionPoint(_, _, _, _)
InsertionPoint(a, pivot, l, r) ==
    IF l < r
    THEN LET p == l + ((r - l) \div 2) IN
         IF KeyLt(pivot, a[p + 1])
         THEN InsertionPoint(a, pivot, l, p)
         ELSE InsertionPoint(a, pivot, p + 1, r)
    ELSE l

RECURSIVE BinarySort(_, _)
BinarySort(a, rest) ==
    IF rest = <<>> THEN a
    ELSE LET l == InsertionPoint(a, rest[1], 0, Len(a)) IN
         BinarySort(SubSeq(a, 1, l) \o <<rest[1]>>
                      \o SubSeq(a, l + 1, Len(a)),
                    Tail(rest))

ListSort(s) ==
    IF Len(s) < 2 THEN s
    ELSE LET desc == KeyLt(s[2], s[1])
             k == RunEnd(s, 2, desc)
             run == SubSeq(s, 1, k)
         IN  BinarySort(IF desc THEN Reversed(run) ELSE run,
                        SubSeq(s, k + 1, Len(s)))

\* _parse_csv: the rows are read, an empty list of steps is rejected, the
\* steps are sorted, and neighbours with equal minutes are rejected
ParseCsv(rows) ==
    LET read == ReadRows(rows, 0, <<>>) IN
    IF ~read.ok \/ read.steps = <<>> THEN Parsed(FALSE, <<>>)
    ELSE LET steps == ListSort(read.steps) IN
         IF \E i \in 2..Len(steps) :
              FloatEq(steps[i].elapsed_minutes, steps[i - 1].elapsed_minutes)
         THEN Parsed(FALSE, <<>>)
         ELSE Parsed(TRUE, steps)

\* from_csv_string(csv_string)
FromCsvString ==
    /\ csv_out = NoParse
    /\ csv_out' = ParseCsv(csv_in)
    /\ UNCHANGED csv_in
    /\ UNCHANGED nonCsvVars

(***************************************************************************)
(* The schedule registry: _load_schedule, _stop_schedule and the ticker    *)
(* threads, for several chiller ids                                        *)
(***************************************************************************)
MaxRunners == 2

\* the runners (and the ticker threads, one started with each) created so
\* far are 1..k
RunnerIds == 1..MaxRunners
NoRunnerId == 0
ScheduleIds == {"default", "aux"}

NoRegCall == [op |-> "none", chiller_id |-> "none", prior |-> NoRunnerId,
              runner |-> NoRunnerId, raised |-> FALSE]

RegAtRest ==
    /\ schedule_runners = [i \in ScheduleIds |-> NoRunnerId]
    /\ rn_state = [r \in RunnerIds |-> "unborn"]
    /\ rn_id = [r \in RunnerIds |-> "none"]
    /\ th_pc = [r \in RunnerIds |-> "unborn"]
    /\ th_runner = [r \in RunnerIds |-> NoRunnerId]
    /\ reg_call = NoRegCall

\* StopRunner for a load that leaves the existing runner running
StopRunnerSkipped(st, r) == st

\* ScheduleRunner.stop() on runner r (no runner: nothing to stop)
StopRunner(st, r) ==
    IF r = NoRunnerId THEN st ELSE [st EXCEPT ![r] = "stopped"]

\* ScheduleRunner.is_running
RunnerIsRunning(r) == rn_state[r] = "running"

\* _load_schedule(csv_data, chiller_id): a CSV that does not parse raises
\* before anything is touched; otherwise the existing runner of the id is
\* stopped, a new runner is started and registered, and its ticker thread
\* is started
LoadScheduleFor(id, csvOk) ==
    /\ \E r \in RunnerIds : rn_state[r] = "unborn"
    /\ LET r == CHOOSE x \in RunnerIds :
                  /\ rn_state[x] = "unborn"
                  /\ \A y \in RunnerIds : rn_state[y] = "unborn" => x <= y
           existing == schedule_runners[id]
       IN  IF csvOk
           THEN /\ rn_state' = [StopRunner(rn_state, existing)
                                  EXCEPT ![r] = "running"]
                /\ rn_id' = [rn_id EXCEPT ![r] = id]
                /\ schedule_runners' = [schedule_runners EXCEPT ![id] = r]
                /\ th_pc' = [th_pc EXCEPT ![r] = "top"]
                /\ reg_call' = [op |-> "load_schedule", chiller_id |-> id,
                                prior |-> existing, runner |-> r,
                                raised |-> FALSE]
           ELSE /\ reg_call' = [op |-> "load_schedule", chiller_id |-> id,
                                prior |-> existing, runner |-> NoRunnerId,
                                raised |-> TRUE]
                /\ UNCHANGED <<rn_state, rn_id, schedule_runners, th_pc>>
    /\ UNCHANGED th_runner
    /\ UNCHANGED nonRegVars

\* _stop_schedule(chiller_id)
StopScheduleFor(id) ==
    /\ rn_state' = StopRunner(rn_state, schedule_runners[id])
    /\ schedule_runners' = [schedule_runners EXCEPT ![id] = NoRunnerId]
    /\ reg_call' = [op |-> "stop_schedule", chiller_id |-> id,
                    prior |-> schedule_runners[id], runner |-> NoRunnerId,
                    raised |-> FALSE]
    /\ UNCHANGED <<rn_id, th_pc, th_runner>>
    /\ UNCHANGED nonRegVars

\* _schedule_ticker, top of the loop: the thread reads the runner of its id
\* and returns unless there is one that is running
TickerTop(t) ==
    /\ th_pc[t] = "top"
    /\ LET runner == schedule_runners[rn_id[t]] IN
       IF runner = NoRunnerId \/ ~RunnerIsRunning(runner)
       THEN /\ th_pc' = [th_pc EXCEPT ![t] = "returned"]
            /\ th_runner' = [th_runner EXCEPT ![t] = NoRunnerId]
       ELSE /\ th_pc' = [th_pc EXCEPT ![t] = "tick"]
            /\ th_runner' = [th_runner EXCEPT ![t] = runner]
    /\ reg_call' = NoRegCall
    /\ UNCHANGED <<schedule_runners, rn_state, rn_id>>
    /\ UNCHANGED nonRegVars

\* runner.tick(): it returns (the schedule goes on, or this was its last
\* tick) or raises; on a runner stopped meanwhile it returns at once
TickerRunsTick(t, outcome) ==
    /\ th_pc[t] = "tick"
    /\ LET r == th_runner[t] IN
       IF ~RunnerIsRunning(r)
       THEN /\ th_pc' = [th_pc EXCEPT ![t] = "finished"]
            /\ UNCHANGED rn_state
       ELSE IF outcome = "raises"
       THEN /\ th_pc' = [th_pc EXCEPT ![t] = "raised"]
            /\ UNCHANGED rn_state
       ELSE IF outcome = "last"
       THEN /\ th_pc' = [th_pc EXCEPT ![t] = "finished"]
            /\ rn_state' = [rn_state EXCEPT ![r] = "stopped"]
       ELSE /\ th_pc' = [th_pc EXCEPT ![t] = "top"]
            /\ UNCHANGED rn_state
    /\ reg_call' = NoRegCall
    /\ UNCHANGED <<schedule_runners, rn_id, th_runner>>
    /\ UNCHANGED nonRegVars

\* StillRegistered for a ticker that does not compare the entry
StillRegisteredAlways(id, r) == TRUE

\* "self._schedule_runners.get(chiller_id) is runner"
StillRegistered(id, r) == schedule_runners[id] = r

\* the ticker after a tick that raised or finished the schedule: the entry
\* of its id is removed if it still is the thread's runner (which a raise
\* also stops), and the thread returns
TickerCleanup(t) ==
    /\ th_pc[t] \in {"raised", "finished"}
    /\ LET r == th_runner[t]
           same == StillRegistered(rn_id[t], r)
       IN  /\ rn_state' = IF same /\ th_pc[t] = "raised"
                          THEN StopRunner(rn_state, r)
                          ELSE rn_state
           /\ schedule_runners' =
                IF same
                THEN [schedule_runners EXCEPT ![rn_id[t]] = NoRunnerId]
                ELSE schedule_runners
    /\ th_pc' = [th_pc EXCEPT ![t] = IF th_pc[t] = "raised"
                                     THEN "returned after error"
                                     ELSE "returned after finish"]
    /\ UNCHANGED th_runner
    /\ reg_call' = NoRegCall
    /\ UNCHANGED rn_id
    /\ UNCHANGED nonRegVars

\* _get_schedule_status(chiller_id)["running"]
ScheduleStatusRunning(id) ==
    /\ schedule_runners[id] # NoRunnerId
    /\ RunnerIsRunning(schedule_runners[id])

(***************************************************************************)
(* main(): serve_forever and the shutdown in its finally clause            *)
(***************************************************************************)
MainAtRest == main_pc = "serving"

\* a step of main that leaves the workers where they are
MainMoves(from, to) ==
    /\ main_pc = from
    /\ main_pc' = to
    /\ out' = NoEvent
    /\ wd_log' = "none"
    /\ sent' = NoResponse
    /\ hend' = NoEnd
    /\ UNCHANGED <<confVars, serial_connected, lock, clientVars, wpc, backoff,
                   retries, given_up, schedVars>>
    /\ UNCHANGED <<hstate, hline, rbuf, active_connections>>
    /\ UNCHANGED nonGwMainVars

\* handle_signal (SIGINT, SIGTERM) runs on the thread that is inside
\* serve_forever: begin_shutdown(), then server.shutdown(), which waits for
\* serve_forever to end and so never returns
MainSignal ==
    /\ MainMoves("serving", "in shutdown()")
    /\ shutting_down' = TRUE
    /\ UNCHANGED <<stop_event, serial_open>>

\* serve_forever is left (by an exception): the finally clause begins, no
\* connection is accepted any more
MainServeEnds ==
    /\ MainMoves("serving", "finally")
    /\ UNCHANGED <<shutting_down, stop_event, serial_open>>

\* server._watchdog.stop(): the event is set ...
MainStopWatchdog ==
    /\ MainMoves("finally", "join watchdog")
    /\ stop_event' = TRUE
    /\ UNCHANGED <<shutting_down, serial_open>>

\* ... and the thread joined for at most 5 seconds: the join returns when
\* the watchdog has ended, or by its timeout while the watchdog is kept in
\* a device call or waits for the lock
MainJoinWatchdog ==
    /\ wpc \notin {"wait", "rc_wait"}
    /\ MainMoves("join watchdog", "join tickers")
    /\ UNCHANGED <<shutting_down, stop_event, serial_open>>

\* "for t in _schedule_threads.values(): t.join(timeout=2.0)": returns
\* when the ticker has ended or after 2 seconds; no runner is stopped
MainJoinTickers ==
    /\ MainMoves("join tickers", "server_close")
    /\ UNCHANGED <<shutting_down, stop_event, serial_open>>

\* server.server_close(): the listening socket is closed; the handler
\* threads are daemon threads and are not waited for
MainServerClose ==
    /\ MainMoves("server_close", "close device")
    /\ UNCHANGED <<shutting_down, stop_event, serial_open>>

\* chiller.close(), called without the lock
MainCloseDevice ==
    /\ MainMoves("close device", "device closed")
    /\ serial_open' = FALSE
    /\ UNCHANGED <<shutting_down, stop_event>>

\* main returns and the process ends with its daemon threads
MainExit ==
    /\ MainMoves("device closed", "exited")
    /\ UNCHANGED <<shutting_down, stop_event, serial_open>>

(***************************************************************************)
(* Specifications                                                          *)
(***************************************************************************)
DrvAtRest ==
    /\ drv_open = TRUE /\ drv_pc = "idle" /\ drv_op = "none" /\ drv_value = 0
    /\ drv_attempt = 0 /\ drv_wire = <<>> /\ drv_rbs = <<>>
    /\ drv_result = "none" /\ drv_clock = 0 /\ drv_last = 0
    /\ drv_prev_last = 0

RLAtRest ==
    /\ rl_max = 1 /\ rl_window = 1 /\ rl_requests = << >> /\ rl_now = 0
    /\ rl_hist = [k \in RLKeys |-> <<>>] /\ rl_last = NoCall

GWAtRest == InitGW /\ auth_token = NoToken /\ read_only = FALSE

SRAtRest ==
    /\ sr_sched = <<Step(0, 1000)>> /\ sr_start = NoStart
    /\ sr_last = NoSetpoint /\ sr_finished = FALSE /\ sr_now = 0
    /\ sr_call = NoRunnerCall

Init == InitGW /\ DrvAtRest /\ RLAtRest /\ SRAtRest /\ InitDsp
          /\ ConnAtRest
          /\ CfgAtRest
          /\ AuditAtRest
          /\ CsvAtRest
          /\ RegAtRest
          /\ MainAtRest
          /\ RlwAtRest
          /\ DcAtRest
          /\ LkAtRest

\* the device answers again after at most this many failed reconnect
\* attempts of one sequence (Spec); SpecWD leaves it away for good
MaxFailedAttempts == 1

\* the commands the two concurrent clients of Spec send: one read, one
\* verified write and the schedule commands (SpecWD and SpecConn send every
\* command)
ConcurrentCommands == {"status", "set_setpoint", "load_schedule",
                       "stop_schedule"}

Next ==
    \/ \E c \in Clients, cmd \in ConcurrentCommands, tok \in Tokens :
          Request(c, cmd, tok)
    \/ \E c \in Clients : ConnectedCheck(c)
    \/ \E c \in Clients : ClientAcquire(c)
    \/ \E c \in Clients : DispatchDone(c)
    \/ \E ro \in BOOLEAN : ReloadConfig(ro)
    \/ WatchdogCheck
    \/ WatchdogStatusDone
    \/ WatchdogMark
    \/ WatchdogCloseAcquire
    \/ WatchdogCloseDone
    \/ WatchdogRetry
    \/ WatchdogAttemptDone(MaxFailedAttempts)
    \/ WatchdogStop
    \/ WatchdogExit
    \/ \E t \in Tickers : TickerTick(t)
    \/ \E t \in Tickers : TickerAcquire(t)
    \/ \E t \in Tickers : TickerApplyDone(t)

Spec == Init /\ [][Next]_vars

\* one client handler sending every command, the watchdog, the device
\* possibly away for good
WDClients == {"c1"}

NextWD ==
    \/ \E c \in WDClients, cmd \in Commands, tok \in Tokens :
          Request(c, cmd, tok)
    \/ \E c \in WDClients : ConnectedCheck(c)
    \/ \E c \in WDClients : ClientAcquire(c)
    \/ \E c \in WDClients : DispatchDone(c)
    \/ \E ro \in BOOLEAN : ReloadConfig(ro)
    \/ WatchdogCheck
    \/ WatchdogStatusDone
    \/ WatchdogMark
    \/ WatchdogCloseAcquire
    \/ WatchdogCloseDone
    \/ WatchdogRetry
    \/ WatchdogAttemptDone(MAX_WATCHDOG_RETRIES)
    \/ WatchdogStop
    \/ WatchdogExit

SpecWD == Init /\ [][NextWD]_vars

InitDriver == InitDrv /\ GWAtRest /\ RLAtRest /\ SRAtRest /\ InitDsp
          /\ ConnAtRest
          /\ CfgAtRest
          /\ AuditAtRest
          /\ CsvAtRest
          /\ RegAtRest
          /\ MainAtRest
          /\ RlwAtRest
          /\ DcAtRest
          /\ LkAtRest

NextDriver ==
    \/ DrvConnect
    \/ DrvClose
    \/ DrvTick
    \/ \E v \in SetpointInputs : SetSetpoint(v)
    \/ \E r \in SetpointReplies(drv_value) : VerifyStep(r)
    \/ \E b \in BOOLEAN, r \in ModeReplies : SetRunning(b, r)

SpecDriver == InitDriver /\ [][NextDriver]_vars

InitLimiter == InitRL /\ GWAtRest /\ DrvAtRest /\ SRAtRest /\ InitDsp
          /\ ConnAtRest
          /\ CfgAtRest
          /\ AuditAtRest
          /\ CsvAtRest
          /\ RegAtRest
          /\ MainAtRest
          /\ RlwAtRest
          /\ DcAtRest
          /\ LkAtRest

NextLimiter ==
    \/ \E ip \in RLKeys : RLAllow(ip)
    \/ RLTick

SpecRL == InitLimiter /\ [][NextLimiter]_vars

\* the limiter called by two connection workers at once
NextLimiterConcurrent ==
    \/ \E w \in RLWorkers, ip \in RLKeys : RLReadClock(w, ip)
    \/ \E w \in RLWorkers : RLLockedBody(w)
    \/ RLClockTick

SpecRLC == InitLimiter /\ [][NextLimiterConcurrent]_vars

\* two client handlers, the watchdog and a schedule ticker running their
\* locked blocks against one another, with or without an audit log
InitCalls ==
    /\ GWAtRest /\ DrvAtRest /\ RLAtRest /\ SRAtRest /\ InitDsp
    /\ ConnAtRest /\ CfgAtRest /\ CsvAtRest /\ RegAtRest /\ MainAtRest
    /\ RlwAtRest /\ DcAtRest
    /\ audit_on \in BOOLEAN /\ audit_log = <<>> /\ au_call = NoAuditedCall
    /\ LkAtRest

NextCalls ==
    \/ \E w \in Workers : \E op \in OperationsOf(w) : DcStart(w, op)
    \/ \E w \in Workers : DcAcquire(w)
    \/ \E w \in Workers : \E outcome \in {"ok", "raises"} :
         DcDeviceCall(w, outcome)

SpecCalls == InitCalls /\ [][NextCalls]_vars

\* two connection handlers, a ticker, the watchdog and reload_config on the
\* main thread taking and releasing the four locks
InitLocks ==
    /\ GWAtRest /\ DrvAtRest /\ RLAtRest /\ SRAtRest /\ InitDsp
    /\ ConnAtRest /\ CfgAtRest /\ AuditAtRest /\ CsvAtRest /\ RegAtRest
    /\ MainAtRest /\ RlwAtRest /\ DcAtRest /\ LkAtRest

NextLocks ==
    \/ \E w \in LkWorkers : \E path \in PathsOf(w) : LkBegin(w, path)
    \/ \E w \in LkWorkers : LkAcquire(w)
    \/ \E w \in LkWorkers : LkRelease(w)
    \/ \E w \in LkWorkers : LkDeviceCall(w)

SpecLocks == InitLocks /\ [][NextLocks]_vars

\* a worker inside a with block goes on (its device calls return and it
\* leaves the block), and a worker blocked in acquire() gets the lock if the
\* lock is free again and again
LocksFairness ==
    \A w \in LkWorkers :
      /\ WF_vars(LkRelease(w))
      /\ WF_vars(LkDeviceCall(w))
      /\ SF_vars(LkAcquire(w))

SpecLocksLive == SpecLocks /\ LocksFairness

InitSched == InitSR /\ GWAtRest /\ DrvAtRest /\ RLAtRest /\ InitDsp
          /\ ConnAtRest
          /\ CfgAtRest
          /\ AuditAtRest
          /\ CsvAtRest
          /\ RegAtRest
          /\ MainAtRest
          /\ RlwAtRest
          /\ DcAtRest
          /\ LkAtRest

NextSched ==
    \/ SrStart
    \/ SrStop
    \/ \E returns \in BOOLEAN : SrTick(returns)
    \/ SrAdvance

SpecSched == InitSched /\ [][NextSched]_vars

\* setpoint_at alone, on every schedule of InterpSchedules
InitInterp ==
    /\ sr_sched \in InterpSchedules
    /\ sr_start = NoStart /\ sr_last = NoSetpoint /\ sr_finished = FALSE
    /\ sr_now = 0 /\ sr_call = NoRunnerCall
    /\ GWAtRest /\ DrvAtRest /\ RLAtRest /\ InitDsp /\ ConnAtRest
    /\ CfgAtRest
    /\ AuditAtRest
    /\ CsvAtRest
    /\ RegAtRest
    /\ MainAtRest
    /\ RlwAtRest
    /\ DcAtRest
    /\ LkAtRest

NextInterp == \E e \in -1..MaxEvalTime : SetpointAtCall(e)

SpecInterp == InitInterp /\ [][NextInterp]_vars

InitDispatch == InitDsp /\ GWAtRest /\ DrvAtRest /\ RLAtRest /\ SRAtRest
          /\ ConnAtRest
          /\ CfgAtRest
          /\ AuditAtRest
          /\ CsvAtRest
          /\ RegAtRest
          /\ MainAtRest
          /\ RlwAtRest
          /\ DcAtRest
          /\ LkAtRest

NextDispatch == \E command \in Commands, v \in Values : Dispatch(command, v)

SpecDispatch == InitDispatch /\ [][NextDispatch]_vars

\* two connections, the first sending every kind of line, the second
\* pinging; the watchdog; a server built with or without a rate limit
ConnLines(c) ==
    IF c = "c1"
    THEN PlainLines
           \cup {Line("object", cmd, "secret", NoChiller) :
                   cmd \in {"ping", "set_setpoint", "bogus", NoCommand}}
           \cup {Line("object", "ping", "wrong", NoChiller)}
    ELSE {Line("eof", NoCommand, NoToken, NoChiller),
          Line("object", "ping", "secret", NoChiller)}

InitConn ==
    /\ InitGW
    /\ auth_token = "secret"
    /\ hstate = [c \in Clients |-> "none"]
    /\ hline = [c \in Clients |-> NoLine]
    /\ rbuf = [c \in Clients |-> NoLine]
    /\ shutting_down = FALSE
    /\ active_connections = 0
    /\ sent = NoResponse
    /\ hend = NoEnd
    /\ rl_max \in {0, 1} /\ rl_window = 1 /\ rl_requests = << >>
    /\ rl_now = 0 /\ rl_hist = [k \in RLKeys |-> <<>>] /\ rl_last = NoCall
    /\ DrvAtRest /\ SRAtRest /\ InitDsp
    /\ CfgAtRest
    /\ AuditAtRest
    /\ CsvAtRest
    /\ RegAtRest
    /\ MainAtRest
    /\ RlwAtRest
    /\ DcAtRest
    /\ LkAtRest

NextConn ==
    \/ \E c \in Clients : Accept(c)
    \/ BeginShutdown
    \/ \E c \in Clients : \E l \in ConnLines(c) : ReadLine(c, l)
    \/ \E c \in Clients : HandleMessage(c)
    \/ \E c \in Clients : ConnectedCheck(c)
    \/ \E c \in Clients : ClientAcquire(c)
    \/ \E c \in Clients : DispatchDone(c)
    \/ ConnTick
    \/ WatchdogCheck
    \/ WatchdogStatusDone
    \/ WatchdogMark
    \/ WatchdogCloseAcquire
    \/ WatchdogCloseDone
    \/ WatchdogRetry
    \/ WatchdogAttemptDone(MaxFailedAttempts)

SpecConn == InitConn /\ [][NextConn]_vars

\* one connection addressing the default chiller, a second registered one
\* and an unregistered one; schedules are loaded for the default chiller
MCClients == {"c1"}
MCLines ==
    {Line("eof", NoCommand, NoToken, NoChiller)}
      \cup {Line("object", cmd, "secret", ch) :
              cmd \in {"status", "set_setpoint", "ping"}, ch \in ChillerIds}
      \cup {Line("object", cmd, "secret", ch) :
              cmd \in SCHEDULE_COMMANDS, ch \in {NoChiller, "ghost"}}

InitMC ==
    /\ InitGW
    /\ hstate = [c \in Clients |-> "none"]
    /\ hline = [c \in Clients |-> NoLine]
    /\ rbuf = [c \in Clients |-> NoLine]
    /\ shutting_down = FALSE
    /\ active_connections = 0
    /\ sent = NoResponse
    /\ hend = NoEnd
    /\ rl_max = 0 /\ rl_window = 1 /\ rl_requests = << >>
    /\ rl_now = 0 /\ rl_hist = [k \in RLKeys |-> <<>>] /\ rl_last = NoCall
    /\ DrvAtRest /\ SRAtRest /\ InitDsp
    /\ CfgAtRest
    /\ AuditAtRest
    /\ CsvAtRest
    /\ RegAtRest
    /\ MainAtRest
    /\ RlwAtRest
    /\ DcAtRest
    /\ LkAtRest

NextMC ==
    \/ \E c \in MCClients : Accept(c)
    \/ \E c \in MCClients, l \in MCLines : ReadLine(c, l)
    \/ \E c \in MCClients : HandleMessage(c)
    \/ \E c \in MCClients : ConnectedCheck(c)
    \/ \E c \in MCClients : ClientAcquire(c)
    \/ \E c \in MCClients : DispatchDone(c)
    \/ \E t \in Tickers : TickerTick(t)
    \/ \E t \in Tickers : TickerAcquire(t)
    \/ \E t \in Tickers : TickerApplyDone(t)

SpecMC == InitMC /\ [][NextMC]_vars

\* the same connection while the watchdog probes the default chiller
NextMCW ==
    \/ \E c \in MCClients : Accept(c)
    \/ \E c \in MCClients, l \in MCLines : ReadLine(c, l)
    \/ \E c \in MCClients : HandleMessage(c)
    \/ \E c \in MCClients : ConnectedCheck(c)
    \/ \E c \in MCClients : ClientAcquire(c)
    \/ \E c \in MCClients : DispatchDone(c)
    \/ WatchdogCheck
    \/ WatchdogStatusDone
    \/ WatchdogMark
    \/ WatchdogCloseAcquire
    \/ WatchdogCloseDone
    \/ WatchdogRetry
    \/ WatchdogAttemptDone(MaxFailedAttempts)

SpecMCW == InitMC /\ [][NextMCW]_vars

\* a server with a token and one connection that sends requests without
\* token or with a wrong one, of every kind of command and chiller_id, and
\* requests with the right token that load and stop schedules and write to
\* the default chiller; the watchdog and the ticker run
AuthLines ==
    {Line("eof", NoCommand, NoToken, NoChiller)}
      \cup {Line("object", cmd, tok, ch) :
              cmd \in {"status", "set_setpoint", "ping", "load_schedule",
                       "bogus", NoCommand},
              tok \in {NoToken, "wrong"}, ch \in ChillerIds}
      \cup {Line("object", cmd, "secret", NoChiller) :
              cmd \in {"set_setpoint", "load_schedule", "stop_schedule"}}

InitAuth == InitMC /\ auth_token = "secret"
          /\ DcAtRest
          /\ LkAtRest

NextAuth ==
    \/ \E c \in MCClients : Accept(c)
    \/ \E c \in MCClients, l \in AuthLines : ReadLine(c, l)
    \/ \E c \in MCClients : HandleMessage(c)
    \/ \E c \in MCClients : ConnectedCheck(c)
    \/ \E c \in MCClients : ClientAcquire(c)
    \/ \E c \in MCClients : DispatchDone(c)
    \/ \E t \in Tickers : TickerTick(t)
    \/ \E t \in Tickers : TickerAcquire(t)
    \/ \E t \in Tickers : TickerApplyDone(t)
    \/ WatchdogCheck
    \/ WatchdogStatusDone
    \/ WatchdogMark
    \/ WatchdogCloseAcquire
    \/ WatchdogCloseDone
    \/ WatchdogRetry
    \/ WatchdogAttemptDone(MaxFailedAttempts)

SpecAuth == InitAuth /\ [][NextAuth]_vars

\* the server reloading its configuration (SIGHUP), with no client served
InitReload == GWAtRest /\ DrvAtRest /\ RLAtRest /\ SRAtRest /\ InitDsp
          /\ ConnAtRest
          /\ CfgAtRest
          /\ AuditAtRest
          /\ CsvAtRest
          /\ RegAtRest
          /\ MainAtRest
          /\ RlwAtRest
          /\ DcAtRest
          /\ LkAtRest

NextReload == \E cfg \in Configs : ReloadConfigFile(cfg)

SpecReload == InitReload /\ [][NextReload]_vars

\* commands served one at a time by a server with or without audit logger
InitAudit ==
    /\ audit_on \in BOOLEAN
    /\ audit_log = <<>>
    /\ au_call = NoAuditedCall
    /\ GWAtRest /\ DrvAtRest /\ RLAtRest /\ SRAtRest /\ InitDsp /\ ConnAtRest
    /\ CfgAtRest
    /\ CsvAtRest
    /\ RegAtRest
    /\ MainAtRest
    /\ RlwAtRest
    /\ DcAtRest
    /\ LkAtRest

NextAudit ==
    \E command \in AuditedCommands, v \in AuditValues,
       preFails \in BOOLEAN, devFails \in BOOLEAN :
      AuditedCommand(command, v, preFails, devFails)

SpecAudit == InitAudit /\ [][NextAudit]_vars

\* the CSV parser on every text of up to MaxCsvRows rows
InitCsv ==
    /\ csv_in \in CsvTexts
    /\ csv_out = NoParse
    /\ GWAtRest /\ DrvAtRest /\ RLAtRest /\ SRAtRest /\ InitDsp /\ ConnAtRest
    /\ CfgAtRest /\ AuditAtRest
    /\ RegAtRest
    /\ MainAtRest
    /\ RlwAtRest
    /\ DcAtRest
    /\ LkAtRest

NextCsv == FromCsvString

SpecCsv == InitCsv /\ [][NextCsv]_vars

\* schedules loaded and stopped for two chiller ids while the ticker
\* threads run
InitReg ==
    /\ RegAtRest
    /\ GWAtRest /\ DrvAtRest /\ RLAtRest /\ SRAtRest /\ InitDsp /\ ConnAtRest
    /\ CfgAtRest /\ AuditAtRest /\ CsvAtRest
    /\ MainAtRest
    /\ RlwAtRest
    /\ DcAtRest
    /\ LkAtRest

NextReg ==
    \/ \E id \in ScheduleIds, csvOk \in BOOLEAN : LoadScheduleFor(id, csvOk)
    \/ \E id \in ScheduleIds : StopScheduleFor(id)
    \/ \E t \in RunnerIds : TickerTop(t)
    \/ \E t \in RunnerIds, outcome \in {"goes on", "last", "raises"} :
         TickerRunsTick(t, outcome)
    \/ \E t \in RunnerIds : TickerCleanup(t)

SpecReg == InitReg /\ [][NextReg]_vars

\* the server with one client, the watchdog and a schedule ticker while
\* main() goes from serving to the end of the process
ShutdownCommands == {"status", "load_schedule"}

WorkerStep ==
    \/ \E cmd \in ShutdownCommands, tok \in Tokens : Request("c1", cmd, tok)
    \/ ConnectedCheck("c1")
    \/ ClientAcquire("c1")
    \/ DispatchDone("c1")
    \/ WatchdogCheck
    \/ WatchdogStatusDone
    \/ WatchdogMark
    \/ WatchdogCloseAcquire
    \/ WatchdogCloseDone
    \/ WatchdogRetry
    \/ WatchdogAttemptDone(MaxFailedAttempts)
    \/ WatchdogExit
    \/ \E t \in Tickers : TickerTick(t)
    \/ \E t \in Tickers : TickerAcquire(t)
    \/ \E t \in Tickers : TickerApplyDone(t)

NextShutdown ==
    \/ main_pc # "exited" /\ WorkerStep
    \/ MainSignal
    \/ MainServeEnds
    \/ MainStopWatchdog
    \/ MainJoinWatchdog
    \/ MainJoinTickers
    \/ MainServerClose
    \/ MainCloseDevice
    \/ MainExit

SpecShutdown == Init /\ [][NextShutdown]_vars

(***************************************************************************)
(* Properties                                                              *)
(***************************************************************************)
\* a worker is inside a call on the device
InDevice(w) ==
    \/ w \in Clients /\ cpc[w] = "dispatch"
    \/ w \in Tickers /\ tpc[w] = "apply"
    \/ w = Watchdog /\ wpc \in {"status", "closing", "rc_attempt"}

\* C1: at every moment at most one worker (client handler, watchdog,
\* schedule ticker) is inside a device call, and it holds the server's lock
C1_OneDeviceOperation ==
    /\ \A w \in Workers : InDevice(w) => lock = w
    /\ Cardinality({w \in Workers : InDevice(w)}) <= 1

\* one client is inside its device call while the other client, the ticker
\* and the watchdog are all waiting for the lock
C1_Witness ==
    /\ cpc["c1"] = "dispatch"
    /\ cpc["c2"] = "lockwait"
    /\ tpc["t1"] = "lockwait"
    /\ wpc = "closewait"

MutatingCommands == {"set_setpoint", "start", "stop", "set_running"}
ReadCommands == {"identify", "status", "get_setpoint", "temperature",
                 "is_running", "status_all"}

\* the token of an answered request passed the token check
Authentic(e) == auth_token = NoToken \/ e.token = auth_token

\* C2: while read_only is set, a request (with an accepted token) for
\* set_setpoint, start, stop or set_running is answered at once with the
\* read-only error, never gets past the check and changes nothing; ping is
\* answered ok; a read command is never answered with the read-only error
\* but goes on to the device, so that its answer is ok unless the device is
\* flagged disconnected or the device call itself fails
C2_ReadOnlyGate ==
    /\ [][\A c \in Clients :
            (read_only /\ cpc[c] = "idle") =>
              /\ cpc'[c] # "idle" => creq'[c].command \notin MutatingCommands
              /\ (out'.client = c /\ Authentic(out')
                    /\ out'.command \in MutatingCommands) =>
                     /\ out'.resp = "read_only_error"
                     /\ ~out'.touched
                     /\ UNCHANGED <<lock, serial_open, cpc, schedVars>>
              /\ (out'.client = c /\ Authentic(out')
                    /\ out'.command = "ping") => out'.resp = "ok"
              /\ (out'.client = c /\ out'.command \in ReadCommands) =>
                     ~Authentic(out')]_vars
    /\ [](out.command \in ReadCommands \cup {"ping"} =>
            /\ out.resp # "read_only_error"
            /\ out.resp \in {"ok", "PermissionError", "reconnecting_error",
                             "RuntimeError"} \cup DeviceFailures
            /\ (out.touched /\ out.resp \notin DeviceFailures
                  /\ out.resp # "RuntimeError") => out.resp = "ok")

\* a mutating command has just been refused in read-only mode
C2_Witness ==
    /\ read_only
    /\ out.command \in MutatingCommands
    /\ out.resp = "read_only_error"

\* C3: with a configured token, every request whose token is missing or
\* wrong is answered with the permission error whatever its command (even a
\* missing one) and calls nothing; only requests with the right token get
\* past the check, and those are never answered with the permission error
C3_TokenCheck ==
    auth_token # NoToken =>
      /\ (out # NoEvent /\ out.token # auth_token) =>
            (out.resp = "PermissionError" /\ ~out.touched)
      /\ (out # NoEvent /\ out.token = auth_token) =>
            out.resp # "PermissionError"
      /\ \A c \in Clients : cpc[c] # "idle" => creq[c].token = auth_token

\* a request without token and without command is refused for its token
C3_Witness ==
    /\ auth_token # NoToken
    /\ out.token = NoToken
    /\ out.command = NoCommand
    /\ out.resp = "PermissionError"

\* C4: while the device is flagged disconnected no client handler holds the
\* device lock or is inside a device call
C4_NoDispatchWhileDisconnected ==
    ~serial_connected => \A c \in Clients : lock # c /\ cpc[c] # "dispatch"

\* C5: once the watchdog has given up it makes no further connect or
\* identify attempt and the device stays flagged disconnected
C5_GivenUpIsFinal ==
    given_up => (wpc # "rc_attempt" /\ ~serial_connected)

\* C6: a reconnect attempt whose connect and identify both return is made
\* under the lock, flags the device connected, releases the lock and takes
\* the watchdog back to its periodic check; with the flag set a waiting
\* client request goes on to the device; and every reconnect sequence
\* starts with the initial backoff and a retry count of zero
C6_ReconnectRestoresHealthy ==
    [][/\ wd_log' = "reconnected" =>
            /\ wpc = "rc_attempt" /\ lock = Watchdog
            /\ serial_connected' /\ serial_open'
            /\ wpc' = "wait" /\ lock' = NoHolder
       /\ (wpc = "rc_attempt" /\ wpc' = "wait") =>
            (serial_connected' /\ wd_log' = "reconnected")
       /\ (wpc = "closing" /\ wpc' # "closing") =>
            /\ wpc' = "rc_wait"
            /\ backoff' = WATCHDOG_INITIAL_BACKOFF
            /\ retries' = 0
       /\ (wpc' = "rc_wait" /\ wpc # "closing") =>
            wpc \in {"rc_wait", "rc_attempt"}
       /\ \A c \in Clients :
            (cpc[c] = "connchk" /\ serial_connected /\ cpc'[c] # "connchk")
               => cpc'[c] = "lockwait"]_vars

\* the watchdog has just reconnected
C6_Witness ==
    /\ wd_log = "reconnected"
    /\ serial_connected
    /\ wpc = "wait"

\* the read-backs of a set_setpoint call that returned a number
IsValue(r) == r.kind = "value"
Matches(r, v) == IsValue(r) /\ Abs(r.v - v) <= 5
WritesOf(wire, name) == {i \in 1..Len(wire) : wire[i][1] = name}

\* C7: an in-range set_setpoint on an open port writes out_sp_00 exactly
\* once, then reads the setpoint back at most 3 times and never again after
\* a read-back within 0.05 of the request; it succeeds exactly when its
\* last read-back is within 0.05, fails with "did not acknowledge" after
\* three mismatching read-backs and with "state unknown" after three
\* read-backs that timed out, and with neither before the third read-back
C7_WriteThenVerify ==
    (drv_op = "set_setpoint" /\ drv_wire # <<>>) =>
      /\ SETPOINT_MIN <= drv_value /\ drv_value <= SETPOINT_MAX
      /\ drv_wire[1][1] = "out_sp_00"
      /\ Cardinality(WritesOf(drv_wire, "out_sp_00")) = 1
      /\ Cardinality(WritesOf(drv_wire, "in_sp_00")) = Len(drv_rbs)
      /\ Len(drv_rbs) <= 3
      /\ \A i \in 1..(Len(drv_rbs) - 1) : ~Matches(drv_rbs[i], drv_value)
      /\ drv_pc = "verify" =>
            /\ Len(drv_rbs) < 3
            /\ \A i \in 1..Len(drv_rbs) : ~Matches(drv_rbs[i], drv_value)
      /\ drv_pc = "idle" =>
            /\ Len(drv_rbs) >= 1
            /\ drv_result = "ok" <=> Matches(drv_rbs[Len(drv_rbs)], drv_value)
            /\ drv_result \in {"did not acknowledge", "state unknown"}
                 => Len(drv_rbs) = 3
            /\ (Len(drv_rbs) = 3 /\ \A i \in 1..3 :
                   IsValue(drv_rbs[i]) /\ ~Matches(drv_rbs[i], drv_value))
                 => drv_result = "did not acknowledge"
            /\ (Len(drv_rbs) = 3 /\ \A i \in 1..3 :
                   drv_rbs[i].kind = "timeout")
                 => drv_result = "state unknown"

\* a call that failed after three mismatching read-backs
C7_Witness ==
    /\ drv_op = "set_setpoint"
    /\ drv_pc = "idle"
    /\ drv_result = "did not acknowledge"
    /\ Len(drv_rbs) = 3
    /\ \A i \in 1..3 : IsValue(drv_rbs[i])

\* C8: set_setpoint with a value outside [-50, 200] fails with the
\* validation error, writes nothing, reads nothing back and leaves the
\* last-command time as it was; -50 and 200 themselves pass the validation
\* (the command is written, or the closed port is reported)
C8_RangeCheckedFirst ==
    drv_op = "set_setpoint" =>
      /\ (drv_value < -5000 \/ drv_value > 20000) =>
            /\ drv_result = "ValueError"
            /\ drv_pc = "idle"
            /\ drv_wire = <<>>
            /\ drv_rbs = <<>>
            /\ drv_last = drv_prev_last
      /\ drv_value \in {-5000, 20000} =>
            (drv_wire # <<>> \/ drv_result = "RuntimeError")

\* an out-of-range call was refused at a time when a write would have
\* moved the last-command time
C8_Witness ==
    /\ drv_op = "set_setpoint"
    /\ drv_value = 20001
    /\ drv_result = "ValueError"
    /\ drv_clock > drv_last + 2

\* C9 as claimed: set_running retries its read-back, so that it fails with
\* "did not acknowledge" only after 3 read-backs
C9_RetriesReadback ==
    (drv_op = "set_running" /\ drv_result = "did not acknowledge") =>
        Len(drv_rbs) = 3

\* C9 amended: set_running on an open port writes the run flag once and
\* reads it back exactly once, without retry; it succeeds when that
\* read-back shows the requested state, fails with "did not acknowledge"
\* when it shows the other state, and passes on a timeout or an error line
C9_SingleReadback ==
    (drv_op = "set_running" /\ drv_wire # <<>>) =>
      /\ drv_wire = << <<"out_mode_05", drv_value>>, <<"in_mode_05">> >>
      /\ Len(drv_rbs) = 1
      /\ drv_pc = "idle"
      /\ drv_rbs[1] = "timeout" => drv_result = "TimeoutError"
      /\ drv_rbs[1] = "error" => drv_result = "JulaboError"
      /\ drv_rbs[1] \notin {"timeout", "error"} =>
            /\ ((drv_rbs[1] = "1") <=> (drv_value = 1)) => drv_result = "ok"
            /\ ((drv_rbs[1] = "1") <=> (drv_value # 1))
                  => drv_result = "did not acknowledge"

\* a start request failed on its single mismatching read-back
C9_Witness ==
    /\ drv_op = "set_running"
    /\ drv_value = 1
    /\ drv_rbs = <<"0">>
    /\ drv_result = "did not acknowledge"

\* C10: allow(k) answers true exactly when fewer than the maximum of the
\* earlier calls answered true for the same key are not older than the
\* window: the first N calls of a window pass, the next is refused, a call
\* made when the earlier ones are older than the window passes again, and
\* the calls of other keys do not count
C10_SlidingWindow ==
    rl_last # NoCall =>
      /\ rl_last.answer <=> rl_last.recent < rl_max
      /\ rl_last.recent <= rl_max
      /\ rl_last.key \in DOMAIN rl_requests
      /\ Len(rl_requests[rl_last.key]) <= rl_max

\* a key is allowed again after it has been refused: it has more passed
\* calls than the maximum, and the call just made passed
C10_Witness ==
    /\ rl_last # NoCall
    /\ rl_last.answer
    /\ rl_last.recent = 0
    /\ Len(rl_hist[rl_last.key]) > rl_max
    /\ \E k \in RLKeys \ {rl_last.key} : Len(rl_hist[k]) = rl_max

\* the time of the last step of the runner's schedule, and its temperature
FinalMinute == sr_sched[Len(sr_sched)].elapsed_minutes
FinalTemperature == sr_sched[Len(sr_sched)].temperature

\* C19: a tick() of a running runner invokes the apply callback exactly when
\* nothing has been applied since start() or the target is more than 0.05
\* away from the value applied last; a tick that makes no call leaves the
\* value applied last as it was, one whose call returns records the target
C19_ApplyOnlyOnChange ==
    (sr_call.op = "tick" /\ sr_call.running) =>
      /\ sr_call.applied <=>
            \/ sr_call.last_before = NoSetpoint
            \/ sr_call.target - sr_call.last_before > 5
            \/ sr_call.last_before - sr_call.target > 5
      /\ ~sr_call.applied => sr_last = sr_call.last_before
      /\ (sr_call.applied /\ ~sr_call.raised) => sr_last = sr_call.target
      /\ sr_call.raised => sr_call.applied

\* a tick of a running runner whose target has moved, but by no more than
\* the tolerance, so that the callback is not invoked
C19_Witness ==
    /\ sr_call.op = "tick"
    /\ sr_call.running
    /\ ~sr_call.applied
    /\ sr_call.last_before # NoSetpoint
    /\ sr_call.target # sr_call.last_before

Uninterpretable(v) ==
    \/ v.t = "list"
    \/ v.t = "str" /\ v.s \in {"maybe", "yes"}

\* the chiller methods that change the chiller's state
StateChanging == {"set_setpoint", "start", "stop", "set_running"}

\* C18: a dispatch_command call with a command that is not one of the 11
\* known ones, with set_setpoint or set_running and no value, or with
\* set_running and a value that cannot be read as a boolean, raises the
\* validation error, calls no chiller method and leaves the chiller's
\* setpoint and run state as they were
C18_InvalidRequestNoEffect ==
    ( \/ dsp_call.command \notin
            {"identify", "status", "get_setpoint", "set_setpoint",
             "temperature", "is_running", "start", "stop", "set_running",
             "status_all", "ping", NoCommand}
      \/ dsp_call.command = NoCommand /\ dsp_call.result # "none"
      \/ dsp_call.command \in {"set_setpoint", "set_running"}
            /\ dsp_call.value = NoValue
      \/ dsp_call.command = "set_running" /\ Uninterpretable(dsp_call.value) )
    => /\ dsp_call.result = "ValueError"
       /\ \A i \in 1..Len(dsp_call.calls) :
             dsp_call.calls[i] \notin StateChanging
       /\ dsp_call.calls = <<>>
       /\ dsp_setpoint = dsp_call.setpoint_before
       /\ dsp_running = dsp_call.running_before

\* set_running with a string that is no boolean word has just been refused
\* on a running chiller whose setpoint had been changed
C18_Witness ==
    /\ dsp_call.command = "set_running"
    /\ dsp_call.value = Value("str", 0, "maybe")
    /\ dsp_call.result = "ValueError"
    /\ dsp_running
    /\ dsp_setpoint # 2000

\* the step just taken asked the server's limiter about a line of a
\* connection, and the limiter refused
DeniedLine == rl_last.key # "none" /\ ~rl_last.answer

\* the limiter denies the address of c
Denying(c) ==
    /\ rl_max > 0
    /\ ~Allowed(rl_requests, ClientIP(c), rl_now, rl_window, rl_max)

\* C11: a line that arrives on a connection while the limiter denies the
\* client's address is never handed to process_command: no token check is
\* made, no device is accessed and no schedule changes; unless the line is
\* the end of the connection or is oversized it is answered with the error
\* "Rate limit exceeded", and the connection goes on reading; only a line
\* the limiter has just denied gets that answer
C11_DeniedLineNotProcessed ==
    /\ [][\A c \in Clients :
            /\ hstate[c] = "reading"
            /\ Denying(c)
            /\ hstate'[c] # hstate[c] \/ sent'.client = c
                  \/ hend'.client = c
            => /\ out' = NoEvent
               /\ UNCHANGED <<cpc, creq, lock, serial_open, serial_connected,
                              schedVars, hline>>
               /\ \/ /\ hend' = [client |-> c, reason |-> hend'.reason]
                     /\ hend'.reason \in EndOfConnection
                  \/ /\ sent'.client = c
                     /\ sent'.error = "Message too large"
                     /\ UNCHANGED <<hstate, active_connections>>
                  \/ /\ sent'.client = c
                     /\ sent'.status = "error"
                     /\ sent'.error = "Rate limit exceeded"
                     /\ sent'.exc = "none" /\ sent'.device = "none"
                     /\ hend' = NoEnd
                     /\ DeniedLine'
                     /\ UNCHANGED <<hstate, active_connections>>]_vars
    /\ [](sent.error = "Rate limit exceeded" =>
            DeniedLine /\ rl_last.key = ClientIP(sent.client))

\* a set_setpoint line carrying the accepted token has just been refused by
\* the limiter, and its connection goes on reading
C11_Witness ==
    /\ sent.error = "Rate limit exceeded"
    /\ sent.command = "set_setpoint"
    /\ hstate[sent.client] = "reading"
    /\ DeniedLine

\* C12 (as claimed): a connection ends only by end of file, by the idle
\* timeout or by a socket failure (or is refused at shutdown); no request
\* line ends it
C12_OnlyTransportEndsConnection ==
    hend.reason \in {"none", "rejected"} \cup EndOfConnection

\* the kinds of exception raised while a request line is processed
ErrorKinds == HANDLER_CATCHES \cup {"RuntimeError", "AttributeError"}

\* _sanitize_error's table as the documentation gives it
MessageOf(kind) ==
    IF kind = "PermissionError" THEN "Authentication failed"
    ELSE IF kind \in {"ValueError", "JSONDecodeError"} THEN "Invalid request"
    ELSE IF kind = "TypeError" THEN "Invalid argument type"
    ELSE IF kind = "TimeoutError" THEN "Device timeout"
    ELSE IF kind = "JulaboError" THEN "Device error"
    ELSE "Internal server error"

\* C13 (as claimed): whatever exception the processing of a request line
\* raises, the client is sent the message of the table for its kind, and
\* the generic "Internal server error" without any text of the exception
\* for every kind that is not in the table
C13_EveryErrorAnsweredFromTable ==
    /\ sent.exc # "none" =>
         /\ sent.error = MessageOf(sent.exc)
         /\ sent.error = "Internal server error" => ~sent.echo
    /\ \A kind \in ErrorKinds : hend.reason # kind

\* C14 (as claimed): every response sent carries protocol_version
C14_VersionInEveryResponse == sent # NoResponse => sent.version

\* the handler of c holds an admitted ping line whose token is accepted
PingAdmitted(c) ==
    /\ hstate[c] = "admitted"
    /\ hline[c].kind = "object"
    /\ hline[c].command = "ping"
    /\ auth_token = NoToken \/ hline[c].token = auth_token

\* C16: an admitted ping with an accepted token never waits for the device
\* lock and touches no device: it is answered in one step, whoever holds
\* the lock, whether the device is connected or not and whether the server
\* is read-only or not, with status ok and the protocol version
C16_PingNeverWaits ==
    /\ [](\A c \in Clients :
            PingAdmitted(c) => cpc[c] = "idle" /\ lock # c)
    /\ [][\A c \in Clients :
            PingAdmitted(c) /\ (hstate'[c] # hstate[c] \/ cpc'[c] # cpc[c])
              => /\ sent'.client = c
                 /\ sent'.command = "ping"
                 /\ sent'.status = "ok"
                 /\ sent'.version
                 /\ sent'.device = "none"
                 /\ hstate'[c] = "reading"
                 /\ cpc'[c] = "idle"
                 /\ UNCHANGED <<lock, serial_open, serial_connected,
                                schedVars>>]_vars

\* a ping has just been answered ok while the watchdog holds the lock, the
\* device is flagged disconnected and the server is read-only, and the
\* other connection holds an admitted ping of its own
C16_Witness ==
    /\ sent.command = "ping" /\ sent.status = "ok" /\ sent.client = "c1"
    /\ lock = Watchdog
    /\ ~serial_connected
    /\ read_only
    /\ PingAdmitted("c2")

\* the connections a handler is serving
Serving == {c \in Clients : hstate[c] \in {"reading", "admitted"}}

\* C17: once begin_shutdown has set the flag it stays set, and a handler
\* that starts afterwards is rejected: it serves nothing and leaves the
\* count of active connections alone; setting the flag ends no connection,
\* and the count is the number of connections being served
C17_ShutdownRejectsNewHandlers ==
    /\ [](active_connections = Cardinality(Serving))
    /\ [][shutting_down => shutting_down']_vars
    /\ [][\A c \in Clients :
            shutting_down /\ hstate[c] = "none"
              => /\ hstate'[c] = "none"
                 /\ sent'.client # c
                 /\ hend'.client = c =>
                      /\ hend'.reason = "rejected"
                      /\ active_connections' = active_connections]_vars
    /\ [][~shutting_down /\ shutting_down'
            => UNCHANGED <<hstate, hline, active_connections, cpc>>]_vars

\* during shutdown a handler has just been rejected while the connection
\* admitted before the flag was set is still being served: its line has
\* passed the limiter and is about to be processed
C17_Witness ==
    /\ shutting_down
    /\ hend = [client |-> "c2", reason |-> "rejected"]
    /\ hstate["c1"] = "admitted"
    /\ active_connections = 1

\* C15 (as claimed): every request naming an unregistered chiller_id is
\* answered with the "Unknown chiller_id" error
C15_UnknownChillerAlwaysRefused ==
    (sent # NoResponse /\ sent.asked = "ghost") => sent.exc = "ValueError"

\* C15 (amended): a request naming an unregistered chiller_id never takes
\* the device lock, calls no device and changes no schedule; unless it is
\* answered by an earlier check (ping always is, ok) it is answered with
\* the ValueError of _resolve_chiller; a request without chiller_id that
\* reaches a device reaches the default one
C15_UnknownChillerNoEffect ==
    /\ [](\A c \in Clients :
            hline[c].chiller = "ghost" =>
               cpc[c] \in {"idle", "connchk"} /\ lock # c)
    /\ [][\A c \in Clients :
            hline[c].chiller = "ghost"
              /\ (hstate'[c] # hstate[c] \/ cpc'[c] # cpc[c])
              => UNCHANGED <<lock, serial_open, schedVars>>]_vars
    /\ [](sent.asked = "ghost" =>
            /\ sent.device = "none"
            /\ sent.status = "ok" <=> sent.command = "ping"
            /\ sent.status = "error" =>
                 \/ sent.exc = "ValueError"
                 \/ sent.error = "Server is in read-only mode")
    /\ [][\A c \in Clients :
            hline[c].chiller = "ghost" /\ cpc[c] = "connchk"
              /\ serial_connected
              => (cpc'[c] # cpc[c] => sent'.exc = "ValueError")]_vars
    /\ [](sent.asked = NoChiller => sent.device \in {"none", "default"})

\* a load_schedule naming an unregistered chiller has just been refused
\* while a schedule runner is registered, which goes on
C15_Witness ==
    /\ sent.asked = "ghost"
    /\ sent.command = "load_schedule"
    /\ sent.exc = "ValueError"
    /\ sched_reg # NoRunner

\* C29: within one reconnect sequence the watchdog waits
\* min(5 * 2^(k-1), 60) seconds before its k-th attempt (retries counts the
\* attempts made so far), and it makes at most 20 attempts
C29_BackoffSequence ==
    /\ wpc = "rc_wait" =>
         /\ retries \in 0..20
         /\ backoff = Min(5 * 2^retries, 60)
    /\ wpc = "rc_attempt" =>
         /\ retries \in 1..20
         /\ backoff = Min(5 * 2^(retries - 1), 60)

\* the watchdog is inside its 20th attempt, made after a wait of 60 seconds
C29_Witness == wpc = "rc_attempt" /\ retries = 20 /\ backoff = 60

\* C28 (as claimed): set_setpoint fails with "state unknown" only if none
\* of its three read-backs returned a value, and with "did not acknowledge"
\* if at least one of the three returned a value and none was within
\* tolerance
C28_StateUnknownOnlyWithoutValue ==
    (drv_op = "set_setpoint" /\ drv_pc = "idle") =>
      /\ drv_result = "state unknown" =>
            \A i \in 1..Len(drv_rbs) : ~IsValue(drv_rbs[i])
      /\ (/\ Len(drv_rbs) = 3
          /\ \A i \in 1..3 : drv_rbs[i].kind \in {"value", "timeout", "error"}
          /\ \E i \in 1..3 : IsValue(drv_rbs[i])
          /\ \A i \in 1..3 : ~Matches(drv_rbs[i], drv_value))
            => drv_result = "did not acknowledge"

\* C30 (as claimed): a runner whose stop() has returned (its _finished flag
\* is set) never has its apply callback running: no ticker is inside
\* chiller.set_setpoint for a finished runner
C30_NoApplyAfterStop ==
    \A t \in Tickers : tpc[t] = "apply" => ~r_finished[tk_runner[t]]

\* C26 (as claimed): a device command that fails, with whatever exception,
\* is answered with an error response on the connection of the client that
\* sent it, which stays open, and the device lock is free afterwards; a
\* handler holds the lock only inside its device command
C26_DeviceFailureAnswered ==
    /\ \A c \in Clients : lock = c => cpc[c] = "dispatch"
    /\ (out # NoEvent /\ out.touched /\ out.resp # "ok") =>
          /\ lock = NoHolder
          /\ cpc[out.client] = "idle"
          /\ hstate[out.client] # "direct" =>
                /\ sent.client = out.client
                /\ sent.status = "error"
                /\ hend = NoEnd
                /\ hstate[out.client] = "reading"

\* C27 (as claimed): what follows the first 1 MiB of an oversized line is
\* neither parsed nor answered: the line read after the "Message too
\* large" response is the client's next line, so that no handler takes the
\* rest of an oversized line for a request
C27_OversizedLineNotParsed ==
    [][\A c \in Clients :
         rbuf[c] # NoLine /\ rbuf'[c] = NoLine
           => hstate'[c] # "admitted" /\ sent'.client # c]_vars

\* C22: on a schedule with strictly increasing minutes setpoint_at(e) is
\* the first step's temperature at or before the first step, the last
\* step's at or after the last step, and between two neighbouring steps
\* the value on the straight line through them, which lies between their
\* temperatures; steps (0, 20), (10, 30) give 25 at minute 5
C22_SetpointAtInterpolates ==
    sr_call.op = "setpoint_at" =>
      LET st == sr_sched
          n == Len(sr_sched)
          e == sr_call.elapsed
          r == sr_call.ret
      IN  /\ e <= st[1].elapsed_minutes => r = st[1].temperature
          /\ e >= st[n].elapsed_minutes => r = st[n].temperature
          /\ \A i \in 1..(n - 1) :
               (st[i].elapsed_minutes <= e /\ e <= st[i + 1].elapsed_minutes)
                 => /\ (r - st[i].temperature)
                          * (st[i + 1].elapsed_minutes
                               - st[i].elapsed_minutes)
                        = (e - st[i].elapsed_minutes)
                            * (st[i + 1].temperature - st[i].temperature)
                    /\ r >= Min(st[i].temperature, st[i + 1].temperature)
                    /\ r <= 0 - Min(0 - st[i].temperature,
                                    0 - st[i + 1].temperature)
          /\ (st = <<Step(0, 2000), Step(10, 3000)>> /\ e = 5) => r = 2500

\* setpoint_at was evaluated strictly between the second and the third
\* step of a falling ramp
C22_Witness ==
    /\ sr_call.op = "setpoint_at"
    /\ sr_sched = <<Step(0, 1200), Step(2, 2400), Step(6, -600)>>
    /\ sr_call.elapsed = 3
    /\ sr_call.ret = 1650

(***************************************************************************)
(* C25.  A reload changes the rate limit, the read-only flag and the idle  *)
(* timeout only, each only when the configuration has its key; the bound   *)
(* host, the port and the serial device are never changed, and a warning   *)
(* is logged for each of them the configuration names; a configuration     *)
(* that cannot be loaded changes no setting.  A key that is present and    *)
(* reached by the reload takes the configured value.                       *)
(***************************************************************************)
C25_ReloadChangesOnlyMutableKeys ==
    [][cfg_call'.op = "reload_config" =>
         LET cfg == cfg_call'.config
             rate == NumberOf(cfg.rate_limit)
         IN  /\ UNCHANGED <<server_address, serial_port, auth_token,
                            serial_connected, serial_open, lock>>
             /\ cfg_call'.warnings =
                  IF cfg.loads
                  THEN {k \in {"host", "port", "serial_port"} :
                          cfg[k] # NoKey}
                  ELSE {}
             /\ (~cfg.loads \/ cfg.rate_limit = NoKey)
                  => UNCHANGED <<rl_max, rl_window, rl_requests>>
             /\ (~cfg.loads \/ cfg.read_only = NoKey) => UNCHANGED read_only
             /\ (~cfg.loads \/ cfg.idle_timeout = NoKey)
                  => UNCHANGED idle_timeout
             /\ (cfg.loads /\ cfg.rate_limit \in {"0", "2"})
                  => /\ rl_max' = rate.n
                     /\ rl_requests' = << >>
                     /\ (cfg.read_only # NoKey
                           => read_only' = (cfg.read_only \in {"true", "Yes"}))
                     /\ (cfg.idle_timeout = "300" => idle_timeout' = 300)]_vars

\* with the server read-only and the limit at 2, a reload of a
\* configuration that names the host and a rate limit of 0 but neither
\* read_only nor idle_timeout has run
C25_Witness ==
    /\ cfg_call.op = "reload_config"
    /\ cfg_call.config.loads
    /\ cfg_call.config.host # NoKey
    /\ cfg_call.config.rate_limit = "0"
    /\ cfg_call.config.read_only = NoKey
    /\ cfg_call.config.idle_timeout = NoKey
    /\ read_only /\ rl_max = 0 /\ idle_timeout = 300
    /\ server_address = <<"127.0.0.1", 8765>>

(***************************************************************************)
(* C24.  With an audit logger, a write command whose dispatch returned     *)
(* adds exactly one record, of that command, to the audit log; every other *)
(* command (a read, a write that raised, any command without logger) adds  *)
(* none.  When the read of the old value failed, the old value is          *)
(* "unknown", the command is dispatched all the same, and the record of    *)
(* set_setpoint or set_running carries "unknown" as the prior value.       *)
(***************************************************************************)
C24_OneAuditRecordPerWrite ==
    [][LET c == au_call'.command
           ok == au_call'.result = "ok"
           d == DispatchCommand(c, dsp_call'.value, dsp_setpoint, dsp_running)
           n == Len(audit_log')
       IN  /\ (audit_on /\ c \in WRITE_COMMANDS /\ ok)
                => /\ n = Len(audit_log) + 1
                   /\ SubSeq(audit_log', 1, n - 1) = audit_log
                   /\ audit_log'[n].command = c
           /\ ~(audit_on /\ c \in WRITE_COMMANDS /\ ok)
                => audit_log' = audit_log
           /\ au_call'.pre_failed
                => /\ au_call'.old_value = OldUnknown
                   /\ dsp_call'.command = c
                   /\ \/ au_call'.result = "JulaboError"
                      \/ /\ au_call'.result = d.result
                         /\ au_call'.calls = d.calls
                         /\ dsp_setpoint' = d.setpoint
                         /\ dsp_running' = d.running
                   /\ (ok /\ c \in {"set_setpoint", "set_running"})
                        => audit_log'[n].was = OldUnknown]_vars

\* a set_setpoint whose capture of the old value failed has changed the
\* setpoint and was logged with "unknown" as the prior value
C24_Witness ==
    /\ au_call.command = "set_setpoint"
    /\ au_call.pre_failed
    /\ au_call.result = "ok"
    /\ dsp_setpoint = 2500
    /\ audit_log = <<[command |-> "set_setpoint",
                      result |-> OldSetpoint(2500), was |-> OldUnknown]>>

(***************************************************************************)
(* C23.  Every schedule the CSV parser returns has at least one step,      *)
(* strictly increasing elapsed minutes and every temperature within        *)
(* [-50, 200]; a text with no valid step, with two rows of equal elapsed   *)
(* minutes or with a temperature out of range is rejected.                 *)
(***************************************************************************)
C23_ParsedScheduleValid ==
    csv_out.op = "parse_csv" =>
      LET st == csv_out.steps
          rows == {i \in 1..Len(csv_in) :
                     /\ Len(csv_in[i]) = 2
                     /\ csv_in[i][1].t # "text" /\ csv_in[i][2].t # "text"}
      IN  /\ csv_out.ok
                => /\ Len(st) >= 1
                   /\ \A i \in 1..(Len(st) - 1) :
                        FloatLt(st[i].elapsed_minutes,
                                st[i + 1].elapsed_minutes)
                   /\ \A i \in 1..Len(st) :
                        /\ FloatLe(Float(SETPOINT_MIN), st[i].temperature)
                        /\ FloatLe(st[i].temperature, Float(SETPOINT_MAX))
          /\ (\/ rows = {}
              \/ \E i, j \in rows :
                   /\ i # j
                   /\ FloatEq(FloatOfCell(csv_in[i][1]),
                              FloatOfCell(csv_in[j][1]))
              \/ \E i \in rows : csv_in[i][2] = Cell("num", SETPOINT_MAX + 1))
                => ~csv_out.ok

(***************************************************************************)
(* C21.  The registry holds at most one runner per chiller id: an entry is *)
(* one runner created for that id, no runner is registered twice, and      *)
(* every runner that is running is the registered one of its id.  A        *)
(* load_schedule for an id that has a runner stops that runner and         *)
(* registers the new, running one in its place; a load_schedule or         *)
(* stop_schedule for one id changes neither the entries of the other ids   *)
(* nor the state of their runners.                                         *)
(***************************************************************************)
C21_OneRunnerPerChiller ==
    /\ [](\A i \in ScheduleIds :
            schedule_runners[i] # NoRunnerId
              => rn_id[schedule_runners[i]] = i)
    /\ [](\A r \in RunnerIds :
            rn_state[r] = "running" => schedule_runners[rn_id[r]] = r)
    /\ [][reg_call'.op \in {"load_schedule", "stop_schedule"} =>
            LET id == reg_call'.chiller_id
                prior == schedule_runners[id]
            IN  /\ \A j \in ScheduleIds \ {id} :
                     schedule_runners'[j] = schedule_runners[j]
                /\ \A r \in RunnerIds :
                     (rn_state[r] # "unborn" /\ rn_id[r] # id)
                       => rn_state'[r] = rn_state[r]
                /\ (reg_call'.op = "load_schedule" /\ ~reg_call'.raised)
                     => /\ schedule_runners'[id] \in RunnerIds \ {prior}
                        /\ rn_state[schedule_runners'[id]] = "unborn"
                        /\ rn_state'[schedule_runners'[id]] = "running"
                        /\ prior # NoRunnerId => rn_state'[prior] = "stopped"
                /\ reg_call'.op = "stop_schedule"
                     => /\ schedule_runners'[id] = NoRunnerId
                        /\ prior # NoRunnerId => rn_state'[prior] = "stopped"
       ]_vars

\* a schedule was loaded for "default" while the first runner of "default"
\* was running and its ticker was inside tick(): the first runner is
\* stopped and the second is the registered one
C21_Witness ==
    /\ reg_call.op = "load_schedule"
    /\ reg_call.chiller_id = "default"
    /\ reg_call.prior = 1
    /\ schedule_runners = [i \in ScheduleIds |->
                             IF i = "default" THEN 2 ELSE NoRunnerId]
    /\ rn_state = <<"stopped", "running">>
    /\ th_pc[1] = "tick"

(***************************************************************************)
(* C31.  A ticker thread only ever ticks the runner it was started with,   *)
(* and no runner is ticked by two threads at a time.                       *)
(***************************************************************************)
C31_OneTickerPerRunner ==
    /\ \A t \in RunnerIds : th_pc[t] = "tick" => th_runner[t] = t
    /\ \A t, u \in RunnerIds :
         (th_pc[t] = "tick" /\ th_pc[u] = "tick" /\ th_runner[t] = th_runner[u])
           => t = u

C35_TickErrorEndsSchedule ==
    /\ [][\A t \in RunnerIds :
            (th_pc[t] = "raised" /\ th_pc'[t] # th_pc[t]) =>
              LET r == th_runner[t]
                  id == rn_id[t]
              IN  /\ th_pc'[t] = "returned after error"
                  /\ rn_state'[r] = "stopped"
                  /\ schedule_runners'[id] # r
                  /\ schedule_runners[id] = r => ~ScheduleStatusRunning(id)'
       ]_vars
    /\ [][\A r \in RunnerIds :
            rn_state[r] = "stopped" => rn_state'[r] = "stopped"]_vars
    /\ [][\A t \in RunnerIds :
            th_pc[t] \in {"returned", "returned after error",
                          "returned after finish"}
              => th_pc'[t] = th_pc[t]]_vars

\* the only schedule loaded, for "aux", was ended by a tick that raised:
\* its runner is stopped, the registry is empty, its ticker has returned
C35_Witness ==
    /\ th_pc[1] = "returned after error"
    /\ th_runner[1] = 1
    /\ rn_id[1] = "aux"
    /\ rn_state = [r \in RunnerIds |-> IF r = 1 THEN "stopped" ELSE "unborn"]
    /\ schedule_runners = [i \in ScheduleIds |-> NoRunnerId]
    /\ ~ScheduleStatusRunning("aux")

(***************************************************************************)
(* C32.  When main has closed the device, no client request is in flight,  *)
(* the watchdog and the schedule tickers have ended, and no worker is in a *)
(* device call.                                                            *)
(***************************************************************************)
C32_DeviceClosedLast ==
    main_pc = "device closed" =>
      /\ \A c \in Clients : cpc[c] = "idle"
      /\ wpc = "stopped"
      /\ \A t \in Tickers : tpc[t] = "none"
      /\ \A w \in Workers : ~InDevice(w)

\* the calls of key k answered True whose timestamps lie in the window
\* that ends at time T
TrueInWindow(k, T) ==
    {i \in 1..Len(rl_hist[k]) :
       T - rl_window <= rl_hist[k][i] /\ rl_hist[k][i] <= T}

\* how often the value x occurs in the sequence q
Occurrences(q, x) == Cardinality({i \in 1..Len(q) : q[i] = x})

(***************************************************************************)
(* C33.  With allow() called by several workers at once, the calls of a    *)
(* key that were answered True and whose timestamps lie within one window  *)
(* never are more than the maximum, and the table holds no timestamp more  *)
(* often than calls with that timestamp were answered True.                *)
(***************************************************************************)
C33_ConcurrentAllowKeepsLimit ==
    \A k \in RLKeys :
      /\ \A T \in 0..MaxRLTime : Cardinality(TrueInWindow(k, T)) <= rl_max
      /\ k \in DOMAIN rl_requests
           => \A i \in 1..Len(rl_requests[k]) :
                Occurrences(rl_requests[k], rl_requests[k][i])
                  <= Occurrences(rl_hist[k], rl_requests[k][i])

\* the keys that made a request within the window that ends now
AskedInLastWindow ==
    {k \in RLKeys : rlw_asked[k] # NeverAsked
                    /\ rlw_asked[k] >= rl_now - rl_window}

(***************************************************************************)
(* C34.  After every allow() call the table maps no key to an empty deque, *)
(* and it has no more keys than there are distinct keys that made a        *)
(* request within the last window.                                         *)
(***************************************************************************)
C34_TableBoundedByRecentKeys ==
    rl_last # NoCall =>
      /\ \A k \in DOMAIN rl_requests : rl_requests[k] # <<>>
      /\ Cardinality(DOMAIN rl_requests) <= Cardinality(AskedInLastWindow)

\* the first half of C34 alone
C34_NoEmptyDeque ==
    rl_last # NoCall => \A k \in DOMAIN rl_requests : rl_requests[k] # <<>>

ReconnectingText == "Serial connection lost, reconnecting..."

(***************************************************************************)
(* C40 (as claimed).  After the watchdog has found a device failing, only  *)
(* commands addressed to that device (the default one, the only one the    *)
(* watchdog probes) are answered with the 'reconnecting' error; a command  *)
(* addressed to another registered device goes on to that device.          *)
(***************************************************************************)
C40_OnlyFailedDeviceFailsFast ==
    /\ [](sent.error = ReconnectingText => sent.asked = NoChiller)
    /\ [][\A c \in Clients :
            cpc[c] = "connchk" /\ cpc'[c] # cpc[c] /\ hline[c].chiller = "aux"
              => cpc'[c] = "lockwait"]_vars

(***************************************************************************)
(* C40 (amended).  While the server is flagged disconnected, a command     *)
(* that reaches the connected check is answered with the 'reconnecting'    *)
(* error whatever chiller_id it carries, registered or not; it takes no    *)
(* lock, calls no device and changes no schedule.  ping is never answered  *)
(* with that error.                                                        *)
(***************************************************************************)
C40_DisconnectedFailsFastForAll ==
    /\ [][\A c \in Clients :
            cpc[c] = "connchk" /\ cpc'[c] # cpc[c] /\ ~serial_connected
              => /\ cpc'[c] = "idle"
                 /\ sent'.error = ReconnectingText
                 /\ sent'.asked = hline[c].chiller
                 /\ sent'.device = "none"
                 /\ UNCHANGED <<lock, serial_open, schedVars>>]_vars
    /\ [](sent.error = ReconnectingText =>
            sent.command # "ping" /\ sent.device = "none")

\* a command for the second registered chiller has just been refused with
\* the 'reconnecting' error while the default chiller is being reconnected
C40_Witness ==
    /\ sent.error = ReconnectingText
    /\ sent.asked = "aux"
    /\ ~serial_connected
    /\ wpc \in {"rc_wait", "rc_attempt"}

(***************************************************************************)
(* C38.  On a server with a token, an admitted request whose token is      *)
(* missing or wrong gets one and the same response, the sanitized          *)
(* permission error, whatever the read-only flag, the connected flag, the  *)
(* device, the lock and the schedules are and whatever command and         *)
(* chiller_id it carries; answering it changes none of these.              *)
(***************************************************************************)
C38_UnauthenticatedUniform ==
    [][\A c \in Clients :
         /\ auth_token # NoToken
         /\ hstate[c] = "admitted"
         /\ hline[c].kind = "object"
         /\ hline[c].token # auth_token
         /\ hstate'[c] # hstate[c]
         => /\ sent'.status = "error"
            /\ sent'.error = "Authentication failed"
            /\ sent'.exc = "PermissionError"
            /\ ~sent'.echo
            /\ ~sent'.version
            /\ sent'.device = "none"
            /\ UNCHANGED <<confVars, serial_connected, lock, serial_open,
                           clientVars, wdVars, schedVars>>]_vars

\* a load_schedule without token, naming an unregistered chiller, has just
\* been refused while the server is flagged disconnected and a schedule runs
C38_Witness ==
    /\ auth_token # NoToken
    /\ sent.exc = "PermissionError"
    /\ sent.command = "load_schedule"
    /\ sent.asked = "ghost"
    /\ ~serial_connected
    /\ sched_reg # NoRunner

(***************************************************************************)
(* C37.  All device calls made for one client command are made in one      *)
(* hold of the device lock: between the first and the last of them the     *)
(* client holds the lock, and every call after the first follows a call    *)
(* of the same client, not one of the watchdog, a ticker or another        *)
(* client.                                                                 *)
(***************************************************************************)
C37_OneHoldPerCommand ==
    /\ [](\A c \in Clients :
            dc_count[c] > 0 /\ dc_todo[c] # <<>> => lock = c)
    /\ [][\A c \in Clients :
            dc_count'[c] = dc_count[c] + 1 /\ dc_count[c] > 0
              => dc_last = c /\ lock = c]_vars

\* an audited set_setpoint has made its three calls (old value, write, read
\* of the new value) while the other client, the watchdog and the ticker
\* were waiting for the lock
C37_Witness ==
    /\ audit_on
    /\ dc_count["c1"] = 3
    /\ dc_todo["c1"] = <<>>
    /\ dc_last = "c1"
    /\ \A w \in Workers \ {"c1"} : dc_pc[w] = "lockwait"

\* the worker that holds the lock w waits for, w itself if it waits for
\* none or for a free one
Blocker(w) ==
    IF \E l \in Locks : WaitingFor(w, l) /\ lk_holder[l] # NoHolder
    THEN lk_holder[CHOOSE l \in Locks : WaitingFor(w, l)]
    ELSE "nobody"

\* the worker reached from w after n steps along the waits
RECURSIVE BlockerAfter(_, _)
BlockerAfter(w, n) ==
    IF n = 0 \/ w = "nobody" THEN w ELSE BlockerAfter(Blocker(w), n - 1)

CyclicWait ==
    \E w \in LkWorkers :
      \E n \in 1..Cardinality(LkWorkers) : BlockerAfter(w, n) = w

====
